---- MODULE Spec2Model ----
(***************************************************************************)
(* Model of the resource-ownership core of the SVSM kernel:                *)
(*   kernel/src/utils/percpu_cell.rs   PerCpuCell, PerCpuRef, PerCpuRefMut *)
(*   kernel/src/mm/pagebox.rs          RawPageBox, PageBox                 *)
(*   kernel/src/mm/access/guest.rs     Mapping<Guest, T>                   *)
(*   kernel/src/sev/vmsa.rs            VmsaPage                            *)
(*   kernel/src/sev/hv_doorbell.rs     HVDoorbellPage, HVDoorbell          *)
(*                                                                         *)
(* Specifications:                                                         *)
(*   Spec      one context, every PerCpuCell operation is one step         *)
(*   SpecIrq   same-core reentrancy: nested handlers, load and store of    *)
(*             the borrow counter are separate steps                       *)
(*   SpecSmp   two cores in parallel on one cell                           *)
(*   SpecPage  RawPageBox / PageBox over the page allocator                *)
(*   SpecGuest Mapping<Guest, T> over guest memory                         *)
(*   SpecVmsa  VmsaPage over the page allocator and the RMP                *)
(*   SpecVmsaFair  SpecVmsa with a fair VmsaPage::new                      *)
(*   SpecHvPage    HVDoorbellPage over the page allocator                  *)
(*   SpecHv, SpecHvFair  process_pending_events against the hypervisor     *)
(*   SpecEoi   no_eoi_required against the hypervisor                      *)
(***************************************************************************)
EXTENDS Integers, FiniteSets, Sequences, Bags, TLC

\* ------------------------------------------------------------------ bounds

\* Number of disjoint sub-fields of the value T held by the cell.
NumFields == 3

\* Largest number of borrow handles alive at once.
MaxRefs == 3

\* Field contents range over 0..MaxVal.
MaxVal == 1

\* Largest number of borrow handles alive at once in SpecSmp, and the largest
\* distance of the counter from zero there.
MaxSmpRefs == 2

\* Pages the allocator manages: 0..NumPages-1.
NumPages == 4

\* size_of::<T>() ranges over 1..MaxTSize.
MaxTSize == 5

\* Largest number of page owners alive or leaked at once.
MaxOwners == 3

\* Guest-owned memory is the cells 1..NumGuestCells; a copy moves at most
\* that many elements.
NumGuestCells == 2

\* size_of::<T>() of a Mapping<Guest, T>, in address units: 1..MaxElemSize.
MaxElemSize == 2

\* Execution contexts: interrupt nesting levels (SpecIrq), cores (SpecSmp).
NumCtx == 2

\* The hypervisor posts the vectors 1..MaxVector.
MaxVector == 2

\* The hypervisor posts at most MaxPosts vectors while one call of
\* process_pending_events runs, and sets the no-EOI bit at most MaxPosts
\* times.
MaxPosts == 3

Fields == 1..NumFields
Values == 0..MaxVal
Regions == (SUBSET Fields) \ {{}}
Ctxs == 1..NumCtx

VARIABLES
    borrow,     \* PerCpuCell.borrow: the AtomicIsize counter
    value,      \* PerCpuCell.value: the content of T, field by field
    refs,       \* bag of live PerCpuRef / PerCpuRefMut handles
    ret,        \* the last operation and what it returned
    pc,         \* per context: where it is inside PerCpuRef(Mut)::new
    val,        \* per context: the counter value it loaded
    depth       \* SpecIrq: the context that is running (nesting level)

cellVars == <<borrow, value, refs, ret, pc, val, depth>>

VARIABLES
    freePages,  \* page allocator: the pages in its free pool
    allocated,  \* page allocator: the runs handed out, as <<address, order>>
    owners,     \* bag of live RawPageBox / PageBox values
    leaked,     \* the runs whose owner was leaked, as <<address, order>>
    rebuilt,    \* the runs of the owners built by from_raw over a leaked reference
    pret,       \* the last page operation and what it returned
    plog        \* what the last page operation did, in order

pageVars == <<freePages, allocated, owners, leaked, rebuilt, pret, plog>>

VARIABLES
    memory,     \* the contents of guest memory and of the kernel's buffers
    mapped,     \* the Mapping<Guest, _> values established
    gret,       \* the last guest-memory operation and what it returned
    glog        \* what the last Mapping::map did, in order

guestVars == <<memory, mapped, gret, glog>>

VARIABLES
    vpc,        \* where the running VmsaPage::new is: "idle" or "loop"
    vheld,      \* the pages owned by the locals of the running VmsaPage::new
    vvmpl,      \* the vmpl argument of the running VmsaPage::new
    rmp,        \* per page: the RMP attributes last set by rmp_adjust
    zeroed,     \* the pages filled with zero bytes and not written since
    vmsas,      \* the live VmsaPage values, by the address of their page
    halted,     \* the kernel has panicked
    vret,       \* the last VmsaPage operation and what it returned
    vlog        \* what the last VmsaPage step did, in order

vmsaVars == <<vpc, vheld, vvmpl, rmp, zeroed, vmsas, halted, vret, vlog>>

VARIABLES
    doorbell,   \* HVDoorbell: the fields vector, flags and no_eoi_required
    ppe,        \* where process_pending_events is, and what it has read
    eoi,        \* per context: where no_eoi_required is, and what it has read
    hist,       \* the vectors posted and dispatched, the settings and
                \* consumptions of the no-EOI bit
    shared,     \* the pages shared with the hypervisor
    registered, \* the pages registered as #HV doorbell page
    doorbells,  \* the live HVDoorbellPage values, by the address of their page
    dret,       \* the last HVDoorbellPage operation and what it returned
    dlog        \* what the last HVDoorbellPage operation did, in order

hvVars == <<doorbell, ppe, eoi, hist, shared, registered, doorbells, dret, dlog>>

vars == <<cellVars, pageVars, guestVars, vmsaVars, hvVars>>

\* What the operations on the cell, those on pages and those on guest
\* memory leave alone.
nonCellVars == <<pageVars, guestVars, vmsaVars, hvVars>>
nonPageVars == <<cellVars, guestVars, vmsaVars, hvVars>>
nonGuestVars == <<cellVars, pageVars, vmsaVars, hvVars>>

\* ----------------------------------------------------------- PerCpuCell

\* A handle: PerCpuRef (kind "r") or PerCpuRefMut (kind "w").  ptr is the
\* part of the value its pointer reaches.  owner is the context holding the
\* handle.  sib and root are bookkeeping for the statements about lineage:
\* sib is the region handed to the other half of the map_split that produced
\* this handle ({} if none did); root names the try_borrow_mut call a write
\* handle descends from (0 for a read handle).
Handle(k, p, s, a, r) ==
    [kind |-> k, ptr |-> p, sib |-> s, owner |-> a, root |-> r]

Live == BagToSet(refs)
Readers == {h \in Live : h.kind = "r"}
Writers == {h \in Live : h.kind = "w"}

\* The handles of kind k, as a bag.
OfKind(k) == [h \in {x \in Live : x.kind = k} |-> refs[h]]

NumReaders == BagCardinality(OfKind("r"))
NumWriters == BagCardinality(OfKind("w"))
NumLive == BagCardinality(refs)

\* The name for the lineage of a new write borrow: the least one no live
\* write handle carries.
FreshRoot ==
    CHOOSE n \in 0..MaxRefs :
        /\ \A w \in Writers : w.root # n
        /\ \A m \in 0..(n - 1) : \E w \in Writers : w.root = m

Put(B, h) == B (+) SetToBag({h})
Take(B, h) == B (-) SetToBag({h})

Ret(op, res) == [op |-> op, res |-> res]

\* PerCpuCell::new: value given, counter zero.
CellInit ==
    /\ borrow = 0
    /\ value = [f \in Fields |-> 0]
    /\ refs = EmptyBag
    /\ ret = Ret("new", "Ok")
    /\ pc = [a \in Ctxs |-> "idle"]
    /\ val = [a \in Ctxs |-> 0]
    /\ depth = 1

\* Mutant of RefNewOk: the test on the loaded value is left out.
RefNewOkAlways(v) == v >= 0 \/ v < 0

\* PerCpuRef::new, the test on the loaded value: no writers.
RefNewOk(v) == v >= 0

\* PerCpuRef::new, the value stored back.
RefNewStore(v) == v + 1

\* Mutant of RefMutNewOk: the counter is read again at the store, as a
\* compare-and-exchange would.
RefMutNewOkRecheck(v) == v = 0 /\ borrow = 0

\* Mutant of RefMutNewOk: the reader's test, which lets readers through.
RefMutNewOkAsRead(v) == v >= 0

\* PerCpuRefMut::new, the test on the loaded value: no readers, no writers.
RefMutNewOk(v) == v = 0

\* Mutant of RefMutNewStore: the loaded value is stored back as it is.
RefMutNewStoreSame(v) == v

\* PerCpuRefMut::new, the value stored back.
RefMutNewStore(v) == v - 1

\* Drop for PerCpuRef: fetch_sub(1).
RefDropCount(b) == b - 1

\* Mutant of RefMutDropCount: the drop of one write borrow frees the cell.
RefMutDropCountReset(b) == 0

\* Drop for PerCpuRefMut: fetch_add(1).
RefMutDropCount(b) == b + 1

\* Mutant of MapSplitCount: the extra count for the second handle is not taken.
MapSplitCountSkipped(b) == b

\* PerCpuRefMut::map_split: fetch_sub(1).
MapSplitCount(b) == b - 1

\* PerCpuRef::map / filter_map: orig is wrapped in ManuallyDrop, so its Drop
\* does not run and the count is left as it is.
RefMapCount(b) == b

\* Mutant of RefMutMapCount: orig is dropped at the end of map.
RefMutMapCountDropped(b) == b + 1

\* PerCpuRefMut::map / filter_map: orig is wrapped in ManuallyDrop.
RefMutMapCount(b) == b

\* PerCpuRef::new after the load of v by context a.
RefNew(a, v, op) ==
    IF RefNewOk(v)
    THEN /\ borrow' = RefNewStore(v)
         /\ refs' = Put(refs, Handle("r", Fields, {}, a, 0))
         /\ ret' = Ret(op, "Ok")
    ELSE /\ ret' = Ret(op, "ReentrantRead")
         /\ UNCHANGED <<borrow, refs>>

\* PerCpuRefMut::new after the load of v by context a.
RefMutNew(a, v, op) ==
    IF RefMutNewOk(v)
    THEN /\ borrow' = RefMutNewStore(v)
         /\ refs' = Put(refs, Handle("w", Fields, {}, a, FreshRoot))
         /\ ret' = Ret(op, "Ok")
    ELSE /\ ret' = Ret(op, "ReentrantWrite")
         /\ UNCHANGED <<borrow, refs>>

\* PerCpuCell::try_borrow, load and store in one step.
TryBorrow(a) ==
    /\ pc[a] = "idle"
    /\ ~RefNewOk(borrow) \/ NumLive < MaxRefs
    /\ RefNew(a, borrow, "try_borrow")
    /\ UNCHANGED <<value, pc, val, depth, nonCellVars>>

\* PerCpuCell::try_borrow_mut, load and store in one step.
TryBorrowMut(a) ==
    /\ pc[a] = "idle"
    /\ ~RefMutNewOk(borrow) \/ NumLive < MaxRefs
    /\ RefMutNew(a, borrow, "try_borrow_mut")
    /\ UNCHANGED <<value, pc, val, depth, nonCellVars>>

\* PerCpuCell::try_get: try_borrow, copy the value out, drop the borrow.
TryGet(a) ==
    /\ pc[a] = "idle"
    /\ IF RefNewOk(borrow)
       THEN /\ borrow' = RefDropCount(RefNewStore(borrow))
            /\ ret' = Ret("try_get", "Ok")
       ELSE /\ ret' = Ret("try_get", "ReentrantRead")
            /\ UNCHANGED borrow
    /\ UNCHANGED <<value, refs, pc, val, depth, nonCellVars>>

\* PerCpuRef::map: the narrowed handle takes over the count of orig.
RefMap(a, h, p) ==
    /\ pc[a] = "idle"
    /\ h.kind = "r" /\ h.owner = a
    /\ p \in Regions /\ p \subseteq h.ptr
    /\ borrow' = RefMapCount(borrow)
    /\ refs' = Put(Take(refs, h), [h EXCEPT !.ptr = p])
    /\ ret' = Ret("map", "Ok")
    /\ UNCHANGED <<value, pc, val, depth, nonCellVars>>

\* PerCpuRef::filter_map: as map when f yields Some, orig back when None.
RefFilterMap(a, h, p) ==
    /\ pc[a] = "idle"
    /\ h.kind = "r" /\ h.owner = a
    /\ \/ /\ p \in Regions /\ p \subseteq h.ptr
          /\ borrow' = RefMapCount(borrow)
          /\ refs' = Put(Take(refs, h), [h EXCEPT !.ptr = p])
          /\ ret' = Ret("filter_map", "Ok")
       \/ /\ p = {}
          /\ UNCHANGED <<borrow, refs>>
          /\ ret' = Ret("filter_map", "Err")
    /\ UNCHANGED <<value, pc, val, depth, nonCellVars>>

\* PerCpuRefMut::map.
RefMutMap(a, h, p) ==
    /\ pc[a] = "idle"
    /\ h.kind = "w" /\ h.owner = a
    /\ p \in Regions /\ p \subseteq h.ptr
    /\ borrow' = RefMutMapCount(borrow)
    /\ refs' = Put(Take(refs, h), [h EXCEPT !.ptr = p])
    /\ ret' = Ret("map_mut", "Ok")
    /\ UNCHANGED <<value, pc, val, depth, nonCellVars>>

\* PerCpuRefMut::filter_map.
RefMutFilterMap(a, h, p) ==
    /\ pc[a] = "idle"
    /\ h.kind = "w" /\ h.owner = a
    /\ \/ /\ p \in Regions /\ p \subseteq h.ptr
          /\ borrow' = RefMutMapCount(borrow)
          /\ refs' = Put(Take(refs, h), [h EXCEPT !.ptr = p])
          /\ ret' = Ret("filter_map_mut", "Ok")
       \/ /\ p = {}
          /\ UNCHANGED <<borrow, refs>>
          /\ ret' = Ret("filter_map_mut", "Err")
    /\ UNCHANGED <<value, pc, val, depth, nonCellVars>>

\* Mutant of SplitRegions: the two halves may overlap.
SplitRegionsOverlapping(h, p, q) ==
    /\ p \in Regions /\ q \in Regions
    /\ p \subseteq h.ptr /\ q \subseteq h.ptr

\* The two regions f hands back in map_split: disjoint parts of orig.
SplitRegions(h, p, q) ==
    /\ p \in Regions /\ q \in Regions
    /\ p \subseteq h.ptr /\ q \subseteq h.ptr
    /\ p \cap q = {}

\* PerCpuRefMut::map_split: one more count, two handles for one.
RefMutMapSplit(a, h, p, q) ==
    /\ pc[a] = "idle"
    /\ h.kind = "w" /\ h.owner = a
    /\ NumLive < MaxRefs
    /\ SplitRegions(h, p, q)
    /\ borrow' = MapSplitCount(borrow)
    /\ refs' = Put(Put(Take(refs, h), Handle("w", p, q, a, h.root)),
                     Handle("w", q, p, a, h.root))
    /\ ret' = Ret("map_split", "Ok")
    /\ UNCHANGED <<value, pc, val, depth, nonCellVars>>

\* Drop for PerCpuRef.
RefDrop(a, h) ==
    /\ pc[a] = "idle"
    /\ h.kind = "r" /\ h.owner = a
    /\ borrow' = RefDropCount(borrow)
    /\ refs' = Take(refs, h)
    /\ ret' = Ret("drop", "Ok")
    /\ UNCHANGED <<value, pc, val, depth, nonCellVars>>

\* Drop for PerCpuRefMut.
RefMutDrop(a, h) ==
    /\ pc[a] = "idle"
    /\ h.kind = "w" /\ h.owner = a
    /\ borrow' = RefMutDropCount(borrow)
    /\ refs' = Take(refs, h)
    /\ ret' = Ret("drop_mut", "Ok")
    /\ UNCHANGED <<value, pc, val, depth, nonCellVars>>

\* Deref for PerCpuRef / PerCpuRefMut: what a read through h sees.
Deref(h) == [f \in h.ptr |-> value[f]]

\* DerefMut for PerCpuRefMut: a write of v to field f through h.
DerefMutWrite(a, h, f, v) ==
    /\ pc[a] = "idle"
    /\ h.kind = "w" /\ h.owner = a
    /\ f \in h.ptr /\ v \in Values
    /\ value' = [value EXCEPT ![f] = v]
    /\ ret' = Ret("write", "Ok")
    /\ UNCHANGED <<borrow, refs, pc, val, depth, nonCellVars>>

\* ------------------------------------------------------- page allocator

\* crate::types::PAGE_SIZE, scaled down: a page holds PAGE_SIZE bytes.
PAGE_SIZE == 2

\* crate::mm::alloc::MAX_ORDER, scaled down: orders 0..MAX_ORDER-1 exist.
MAX_ORDER == 2

Pages == 0..(NumPages - 1)
Orders == 0..(MAX_ORDER - 1)

RECURSIVE Pow2(_)
Pow2(n) == IF n = 0 THEN 1 ELSE 2 * Pow2(n - 1)

\* The pages of the run of 2^order pages at addr.
Run(addr, order) == addr..(addr + Pow2(order) - 1)

\* crate::mm::alloc::get_order: the least order whose run holds size bytes.
get_order(size) ==
    CHOOSE o \in 0..(MAX_ORDER + MaxTSize) :
        /\ PAGE_SIZE * Pow2(o) >= size
        /\ \A m \in 0..(o - 1) : PAGE_SIZE * Pow2(m) < size

\* crate::mm::alloc::allocate_pages: the addresses it may return for order,
\* the aligned runs of 2^order free pages; none means AllocError::OutOfMemory.
allocate_pages(order) ==
    IF order \notin Orders THEN {}
    ELSE {a \in Pages : a % Pow2(order) = 0 /\ Run(a, order) \subseteq freePages}

\* The allocator's free pool after allocate_pages(order) returned addr.
PoolAfterAllocate(addr, order) == freePages \ Run(addr, order)

\* crate::mm::alloc::free_page: the free pool after the runs handed out at
\* the addresses addrs are given back.
PoolAfterFree(addrs) ==
    freePages \cup UNION {Run(r[1], r[2]) : r \in {x \in allocated : x[1] \in addrs}}

\* The allocator's free capacity, in pages.
FreeCapacity == Cardinality(freePages)

\* ---------------------------------------------------- RawPageBox, PageBox

\* A page owner: a RawPageBox (type "raw"), a PageBox<MaybeUninit<T>>
\* (type "uninit") or a PageBox<T> (type "init"), with RawPageBox.addr and
\* RawPageBox.order.
Owner(t, addr, order) == [type |-> t, addr |-> addr, order |-> order]

Owned == BagToSet(owners)

PRet(op, res, addr, order) == [op |-> op, res |-> res, addr |-> addr, order |-> order]

\* No address: what an operation that fails returns in place of an owner.
NoAddr == 0 - 1

PageInit ==
    /\ freePages = Pages
    /\ allocated = {}
    /\ owners = EmptyBag
    /\ leaked = {}
    /\ rebuilt = {}
    /\ pret = PRet("boot", "Ok", NoAddr, 0)
    /\ plog = << >>

\* What the constructor op does with the pages once RawPageBox::new has
\* succeeded: try_new writes x and calls assume_init (leak, then from_raw
\* twice); try_new_zeroed fills the run with zero bytes.
InitSteps(op) ==
    CASE op = "try_new" -> <<"write", "leak", "from_raw">>
      [] op = "try_new_zeroed" -> <<"write_bytes">>
      [] OTHER -> << >>

\* RawPageBox::new, as the step of the operation op that yields an owner of
\* type t: allocate_pages(order)?, then Self { addr, order }.  An owner of
\* type "init" comes out of the assume_init at the end of try_new.
RawPageBoxNew(order, t, op) ==
    IF allocate_pages(order) = {}
    THEN /\ pret' = PRet(op, "OutOfMemory", NoAddr, order)
         /\ plog' = <<"allocate_pages">>
         /\ UNCHANGED <<freePages, allocated, owners, leaked, rebuilt>>
    ELSE \E addr \in allocate_pages(order) :
            /\ freePages' = PoolAfterAllocate(addr, order)
            /\ allocated' = allocated \cup {<<addr, order>>}
            /\ owners' = Put(owners, Owner(t, addr, order))
            /\ rebuilt' = IF t = "init" THEN rebuilt \cup {<<addr, order>>} ELSE rebuilt
            /\ pret' = PRet(op, "Ok", addr, order)
            /\ plog' = <<"allocate_pages">> \o InitSteps(op)
            /\ UNCHANGED leaked

\* RawPageBox::new(order).
RawNew(order) ==
    /\ BagCardinality(owners) + Cardinality(leaked) < MaxOwners
    /\ RawPageBoxNew(order, "raw", "raw_new")
    /\ UNCHANGED nonPageVars

\* Mutant of RawDropFrees: the destructor gives nothing back.
RawDropFreesNothing(b) == {}

\* Drop for RawPageBox: the addresses handed to free_page.
RawDropFrees(b) == {b.addr}

\* Drop for RawPageBox: free_page(self.addr).
RawDrop(b) ==
    /\ b.type = "raw"
    /\ freePages' = PoolAfterFree(RawDropFrees(b))
    /\ allocated' = {x \in allocated : x[1] \notin RawDropFrees(b)}
    /\ owners' = Take(owners, b)
    /\ pret' = PRet("raw_drop", "Ok", b.addr, b.order)
    /\ plog' = <<"free_page">>
    /\ UNCHANGED <<leaked, rebuilt, nonPageVars>>

\* Mutant of OrderTooLarge: the order MAX_ORDER itself is let through.
OrderTooLargeStrict(order) == order > MAX_ORDER

\* PageBox::try_new_uninit, the test on the order: order >= MAX_ORDER.
OrderTooLarge(order) == order >= MAX_ORDER

\* PageBox::try_new_uninit for a T of size bytes: the order from get_order,
\* OutOfMemory without an allocation if it is not below MAX_ORDER, else
\* RawPageBox::new(order)? and from_raw.
TryNewUninit(size) ==
    /\ BagCardinality(owners) + Cardinality(leaked) < MaxOwners
    /\ IF OrderTooLarge(get_order(size))
       THEN /\ pret' = PRet("try_new_uninit", "OutOfMemory", NoAddr, get_order(size))
            /\ plog' = << >>
            /\ UNCHANGED <<freePages, allocated, owners, leaked, rebuilt>>
       ELSE RawPageBoxNew(get_order(size), "uninit", "try_new_uninit")
    /\ UNCHANGED nonPageVars

\* PageBox::try_new(x): try_new_uninit()?, write x, assume_init.
TryNew(size) ==
    /\ BagCardinality(owners) + Cardinality(leaked) < MaxOwners
    /\ IF OrderTooLarge(get_order(size))
       THEN /\ pret' = PRet("try_new", "OutOfMemory", NoAddr, get_order(size))
            /\ plog' = << >>
            /\ UNCHANGED <<freePages, allocated, owners, leaked, rebuilt>>
       ELSE RawPageBoxNew(get_order(size), "init", "try_new")
    /\ UNCHANGED nonPageVars

\* PageBox::try_new_zeroed: try_new_uninit()?, then write_bytes(0, size) over
\* the run; the owner stays a PageBox<MaybeUninit<T>>.
TryNewZeroed(size) ==
    /\ BagCardinality(owners) + Cardinality(leaked) < MaxOwners
    /\ IF OrderTooLarge(get_order(size))
       THEN /\ pret' = PRet("try_new_zeroed", "OutOfMemory", NoAddr, get_order(size))
            /\ plog' = << >>
            /\ UNCHANGED <<freePages, allocated, owners, leaked, rebuilt>>
       ELSE RawPageBoxNew(get_order(size), "uninit", "try_new_zeroed")
    /\ UNCHANGED nonPageVars

\* Mutant of LeakFrees: the owner is dropped at the end of leak.
LeakFreesSelf(b) == {b.addr}

\* PageBox::leak, the addresses handed to free_page: none, the owner is
\* wrapped in ManuallyDrop and neither Drop for PageBox nor Drop for
\* RawPageBox runs.
LeakFrees(b) == {}

\* PageBox::leak: the owner is given up without a destructor and the pages
\* stay allocated; a reference to raw.addr is handed back.
Leak(b) ==
    /\ b.type \in {"uninit", "init"}
    /\ owners' = Take(owners, b)
    /\ leaked' = leaked \cup {<<b.addr, b.order>>}
    /\ rebuilt' = rebuilt \ {<<b.addr, b.order>>}
    /\ freePages' = PoolAfterFree(LeakFrees(b))
    /\ allocated' = {x \in allocated : x[1] \notin LeakFrees(b)}
    /\ pret' = PRet("leak", "Ok", b.addr, b.order)
    /\ plog' = <<"leak">>
    /\ UNCHANGED nonPageVars

\* Mutant of AssumeInitOwners: self is not given up, so that the pages have
\* the old owner and the new one.
AssumeInitOwnersKeepsSelf(b) == Put(owners, Owner("init", b.addr, b.order))

\* PageBox::assume_init, the owners after it: self goes into leak and is
\* gone; from_raw makes the PageBox<T> with the address of the leaked
\* reference and the saved order.
AssumeInitOwners(b) == Put(Take(owners, b), Owner("init", b.addr, b.order))

\* PageBox::assume_init: the order is saved, leak(self), then
\* from_raw(RawPageBox::from_raw(addr, order)).
AssumeInit(b) ==
    /\ b.type = "uninit"
    /\ owners' = AssumeInitOwners(b)
    /\ rebuilt' = rebuilt \cup {<<b.addr, b.order>>}
    /\ pret' = PRet("assume_init", "Ok", b.addr, b.order)
    /\ plog' = <<"leak", "from_raw">>
    /\ UNCHANGED <<freePages, allocated, leaked, nonPageVars>>

\* Mutant of BoxDropEvents: the pages are given back before the destructor
\* of T runs over them.
BoxDropEventsFreeFirst(b) ==
    <<"free_page">> \o (IF b.type = "init" THEN <<"drop_in_place">> ELSE << >>)

\* Drop for PageBox<T>: what happens, in order.  drop() runs
\* ptr::drop_in_place on the memory as a T, which for T = MaybeUninit<U>
\* runs no destructor; then the field raw is dropped, which is Drop for
\* RawPageBox.
BoxDropEvents(b) ==
    (IF b.type = "init" THEN <<"drop_in_place">> ELSE << >>) \o <<"free_page">>

\* The number of times ev is in the log s.
Count(s, ev) == Cardinality({i \in DOMAIN s : s[i] = ev})

\* Drop for PageBox<T>, with the drop of its field raw.  The result recorded
\* is the type of the owner that was dropped.
BoxDrop(b) ==
    /\ b.type \in {"uninit", "init"}
    /\ plog' = BoxDropEvents(b)
    /\ freePages' = PoolAfterFree(RawDropFrees(b))
    /\ allocated' = {x \in allocated : x[1] \notin RawDropFrees(b)}
    /\ owners' = Take(owners, b)
    /\ rebuilt' = rebuilt \ {<<b.addr, b.order>>}
    /\ pret' = PRet("drop", b.type, b.addr, b.order)
    /\ UNCHANGED <<leaked, nonPageVars>>

NextPage ==
    \/ \E order \in 0..MAX_ORDER : RawNew(order)
    \/ \E b \in Owned : RawDrop(b)
    \/ \E size \in 1..MaxTSize : TryNewUninit(size)
    \/ \E size \in 1..MaxTSize : TryNew(size)
    \/ \E size \in 1..MaxTSize : TryNewZeroed(size)
    \/ \E b \in Owned : AssumeInit(b)
    \/ \E b \in Owned : Leak(b)
    \/ \E b \in Owned : BoxDrop(b)

\* --------------------------------------------------- guest-memory access

\* What a memory cell can hold: the contents of one element.
Contents == {"a", "b"}

\* The physical addresses a map request can name; address AddrLimit and
\* above cannot be represented.
AddrLimit == NumGuestCells + 2
PhysAddrs == 0..(AddrLimit - 1)

\* The kernel's memory map: the guest owns 1..NumGuestCells; address 0 and
\* address NumGuestCells + 1 are not guest memory.
GuestOwned == 1..NumGuestCells

\* The kernel's own buffer, which never faults: as many elements as the
\* guest has, from address KernelBuffer on.
KernelBuffer == AddrLimit
KernelCells == KernelBuffer..(KernelBuffer + NumGuestCells - 1)

Cells == GuestOwned \cup KernelCells

\* No region: what phys_region yields when the range cannot be formed.
NoRegion == {0 - 1}

\* Mapping::phys_region: the range [paddr, paddr + len * size_of::<T>()), or
\* an error if it does not fit the address space.
phys_region(paddr, len, size) ==
    IF paddr + len * size > AddrLimit THEN NoRegion
    ELSE paddr..(paddr + len * size - 1)

\* crate::mm::memory::valid_phys_region: the whole region is guest-owned.
valid_phys_region(region) == region \subseteq GuestOwned

\* Mutant of check_region: only the first address of the range is validated.
check_regionFirstOnly(paddr, len, size) ==
    IF phys_region(paddr, len, size) = NoRegion THEN "Err"
    ELSE IF ~valid_phys_region({paddr}) THEN "Mem"
    ELSE "Ok"

\* Mapping<Guest, T>::check_region: phys_region(paddr, len)?, then
\* SvsmError::Mem unless valid_phys_region(&region).
check_region(paddr, len, size) ==
    IF phys_region(paddr, len, size) = NoRegion THEN "Err"
    ELSE IF ~valid_phys_region(phys_region(paddr, len, size)) THEN "Mem"
    ELSE "Ok"

\* The steps check_region takes, in order.
check_regionSteps(paddr, len, size) ==
    IF phys_region(paddr, len, size) = NoRegion THEN <<"phys_region">>
    ELSE <<"phys_region", "valid_phys_region">>

\* A Mapping<Guest, T> (form "map") or Mapping<Guest, [T]> (form "map_slice").
GuestMapping(form, paddr, len, size) ==
    [form |-> form, paddr |-> paddr, len |-> len, size |-> size]

\* The cells a mapping gives access to.
MappedCells(mp) == mp.paddr..(mp.paddr + mp.len * mp.size - 1)

\* Mapping::map_inner: the virtual mapping for the range is established.
map_inner(form, paddr, len, size) ==
    mapped \cup {GuestMapping(form, paddr, len, size)}

GRet(op, res, src, dst, count, size, copied, faults) ==
    [op |-> op, res |-> res, src |-> src, dst |-> dst, count |-> count,
     size |-> size, copied |-> copied, faults |-> faults]

\* The kernel has not panicked.
GuestRunning == gret.res # "panic"

GuestInit ==
    /\ memory = [c \in Cells |-> "a"]
    /\ mapped = {}
    /\ gret = GRet("boot", "Ok", 0, 0, 0, 1, 0, {})
    /\ glog = << >>

\* Mapping<Guest, T>::map(paddr) with len = 1 and Mapping<Guest, [T]>::map(
\* paddr, len): check_region(paddr, len)?, then map_inner.  One mapping is
\* held at a time.
GuestMap(form, paddr, len, size) ==
    /\ GuestRunning
    /\ form = "map" => len = 1
    /\ IF check_region(paddr, len, size) # "Ok"
       THEN /\ gret' = GRet(form, check_region(paddr, len, size), paddr, 0, len, size, 0, {})
            /\ glog' = check_regionSteps(paddr, len, size)
            /\ UNCHANGED mapped
       ELSE /\ mapped = {}
            /\ mapped' = map_inner(form, paddr, len, size)
            /\ gret' = GRet(form, "Ok", paddr, 0, len, size, 0, {})
            /\ glog' = check_regionSteps(paddr, len, size) \o <<"map_inner">>
    /\ UNCHANGED <<memory, nonGuestVars>>

\* The mapping goes out of scope.
GuestUnmap(mp) ==
    /\ GuestRunning
    /\ mp \in mapped
    /\ mapped' = mapped \ {mp}
    /\ gret' = GRet("unmap", "Ok", mp.paddr, 0, mp.len, mp.size, 0, {})
    /\ glog' = << >>
    /\ UNCHANGED <<memory, nonGuestVars>>

\* The sets of guest addresses that can be faulting during one call on the
\* count elements at g: none, or the elements from one of them on (the tail
\* of the range has been revoked).
FaultSets(g, count) ==
    {{}} \cup {c..(g + count - 1) : c \in g..(g + count - 1)}

\* crate::mm::guestmem::do_movsb, whether it fails: the copy of one element
\* faults if either address is one that faults now.
do_movsbFaults(src, dst, F) == src \in F \/ dst \in F

\* crate::mm::guestmem::do_movsb when it does not fault: one element copied.
do_movsb(m, src, dst) == [m EXCEPT ![dst] = m[src]]

\* Mutant of ElemSrc: every element is read from the first address.
ElemSrcFixed(src, i) == src

\* src.add(i)
ElemSrc(src, i) == src + i

\* Mutant of ElemDst: every element is written to the first address.
ElemDstFixed(dst, i) == dst

\* dst.add(i)
ElemDst(dst, i) == dst + i

RECURSIVE CopyLoop(_, _, _, _, _, _)
\* for i in 0..count { do_movsb(src.add(i), dst.add(i))?; } Ok(()), from
\* index i on: the memory after it, the number of elements copied and the
\* result.
CopyLoop(m, src, dst, i, count, F) ==
    IF i >= count THEN [mem |-> m, copied |-> i, res |-> "Ok"]
    ELSE IF do_movsbFaults(ElemSrc(src, i), ElemDst(dst, i), F)
         THEN [mem |-> m, copied |-> i, res |-> "Fault"]
         ELSE CopyLoop(do_movsb(m, ElemSrc(src, i), ElemDst(dst, i)),
                       src, dst, i + 1, count, F)

\* ReadAccess for Guest: read(src, dst, count).
Guest_read(m, src, dst, count, F) == CopyLoop(m, src, dst, 0, count, F)

\* WriteAccess for Guest: write(src, dst, count).
Guest_write(m, src, dst, count, F) == CopyLoop(m, src, dst, 0, count, F)

\* count elements from address g on lie inside an established mapping.
InMapping(g, count) ==
    \E mp \in mapped : g \in MappedCells(mp) /\ g + count - 1 \in MappedCells(mp) \cup {g - 1}

\* count elements from address k on lie inside the kernel's buffers.
InKernel(k, count) ==
    k \in KernelCells /\ k + count - 1 \in KernelCells \cup {k - 1}

\* Guest::read of count elements from mapped guest memory at src to the
\* kernel buffer at dst, while the guest addresses F fault.
GuestRead(src, dst, count, F) ==
    /\ GuestRunning
    /\ InMapping(src, count) /\ InKernel(dst, count)
    /\ F \in FaultSets(src, count)
    /\ LET r == Guest_read(memory, src, dst, count, F)
       IN  /\ memory' = r.mem
           /\ gret' = GRet("read", r.res, src, dst, count, 1, r.copied, F)
    /\ glog' = << >>
    /\ UNCHANGED <<mapped, nonGuestVars>>

\* Guest::write of count elements from the kernel buffer at src to mapped
\* guest memory at dst, while the guest addresses F fault.
GuestWrite(src, dst, count, F) ==
    /\ GuestRunning
    /\ InKernel(src, count) /\ InMapping(dst, count)
    /\ F \in FaultSets(dst, count)
    /\ LET r == Guest_write(memory, src, dst, count, F)
       IN  /\ memory' = r.mem
           /\ gret' = GRet("write", r.res, src, dst, count, 1, r.copied, F)
    /\ glog' = << >>
    /\ UNCHANGED <<mapped, nonGuestVars>>

\* Mutant of write_bytesMemory: the fill is carried out before the panic.
write_bytesMemoryFilled(m, dst, count, byte) ==
    [c \in Cells |-> IF c \in dst..(dst + count - 1) THEN byte ELSE m[c]]

\* Guest::write_bytes, the memory after it: unimplemented!() touches nothing.
write_bytesMemory(m, dst, count, byte) == m

\* Guest::write_bytes(dst, count, byte): unimplemented!(), a panic.
GuestWriteBytes(dst, count, byte) ==
    /\ GuestRunning
    /\ InMapping(dst, count)
    /\ memory' = write_bytesMemory(memory, dst, count, byte)
    /\ gret' = GRet("write_bytes", "panic", 0, dst, count, 1, 0, {})
    /\ glog' = << >>
    /\ UNCHANGED <<mapped, nonGuestVars>>

\* The kernel changes an element of its own buffer.
KernelStore(k, e) ==
    /\ GuestRunning
    /\ k \in KernelCells /\ e \in Contents
    /\ memory[k] # e
    /\ memory' = [memory EXCEPT ![k] = e]
    /\ gret' = GRet("store", "Ok", 0, k, 1, 1, 0, {})
    /\ glog' = << >>
    /\ UNCHANGED <<mapped, nonGuestVars>>

NextGuest ==
    \/ \E paddr \in PhysAddrs : \E size \in 1..MaxElemSize :
           GuestMap("map", paddr, 1, size)
    \/ \E paddr \in PhysAddrs : \E len \in 1..(NumGuestCells + 1) : \E size \in 1..MaxElemSize :
           GuestMap("map_slice", paddr, len, size)
    \/ \E mp \in mapped : GuestUnmap(mp)
    \/ \E src \in GuestOwned : \E count \in 0..NumGuestCells :
           \E F \in FaultSets(src, count) : GuestRead(src, KernelBuffer, count, F)
    \/ \E dst \in GuestOwned : \E count \in 0..NumGuestCells :
           \E F \in FaultSets(dst, count) : GuestWrite(KernelBuffer, dst, count, F)
    \/ \E dst \in GuestOwned : \E count \in 0..NumGuestCells : \E byte \in Contents :
           GuestWriteBytes(dst, count, byte)
    \/ \E k \in KernelCells : \E e \in Contents : KernelStore(k, e)

\* --------------------------------------------------------------- VmsaPage

\* sev::vmsa::VMPL_MAX: the privilege levels are 0..VMPL_MAX-1.
VMPL_MAX == 4

Vmpls == 0..(VMPL_MAX - 1)

\* The vmpl arguments tried: the least and the greatest privilege level,
\* and the least value the assert of VmsaPage::new refuses.
VmplArgs == {0, VMPL_MAX - 1, VMPL_MAX}

\* crate::types::PAGE_SIZE_2M, scaled down: two pages.
PAGE_SIZE_2M == 2 * PAGE_SIZE

\* RawPageBox::vaddr of the page with index p.
vaddr(p) == p * PAGE_SIZE

\* Address::is_aligned.
is_aligned(addr, align) == addr % align = 0

\* RMPFlags::VMSA | vmpl and RMPFlags::RWX | RMPFlags::VMPL0, as the
\* attributes a page carries in the RMP.
RMPFlags(vmsa, vmpl) == [vmsa |-> vmsa, vmpl |-> vmpl]
VmsaFlags(vmpl) == RMPFlags(TRUE, vmpl)
RwxVmpl0 == RMPFlags(FALSE, 0)

\* The pages that carry the VMSA tag.
Tagged == {p \in Pages : rmp[p].vmsa}

\* sev::utils::rmp_adjust: the results it may give.
rmp_adjust == {"Ok", "Err"}

\* sev::utils::rmp_adjust: the RMP after it returned res for the page p and
\* the attributes flags; a failed adjustment changes nothing.
RmpAfter(p, flags, res) == IF res = "Ok" THEN [rmp EXCEPT ![p] = flags] ELSE rmp

VRet(op, res, addr) == [op |-> op, res |-> res, addr |-> addr]

\* The PageBox<VMSA> inside the VmsaPage at the page a.
VmsaBox(a) == Owner("init", a, 0)

VmsaInit ==
    /\ vpc = "idle"
    /\ vheld = {}
    /\ vvmpl = 0
    /\ rmp = [p \in Pages |-> RwxVmpl0]
    /\ zeroed = {}
    /\ vmsas = {}
    /\ halted = FALSE
    /\ vret = VRet("boot", "Ok", NoAddr)
    /\ vlog = << >>

\* VmsaPage::new up to the loop: the assert on vmpl, then
\* RawPageBox::new(0)?.
VmsaNewStart(vmpl) ==
    /\ ~halted
    /\ vpc = "idle"
    /\ IF ~(vmpl < VMPL_MAX)
       THEN /\ halted' = TRUE
            /\ vret' = VRet("new", "panic", NoAddr)
            /\ vlog' = <<"panic">>
            /\ UNCHANGED <<freePages, allocated, vpc, vheld, vvmpl>>
       ELSE IF allocate_pages(0) = {}
       THEN /\ vret' = VRet("new", "OutOfMemory", NoAddr)
            /\ vlog' = <<"allocate_pages">>
            /\ UNCHANGED <<freePages, allocated, vpc, vheld, vvmpl, halted>>
       ELSE \E addr \in allocate_pages(0) :
               /\ freePages' = PoolAfterAllocate(addr, 0)
               /\ allocated' = allocated \cup {<<addr, 0>>}
               /\ vheld' = {addr}
               /\ vpc' = "loop"
               /\ vvmpl' = vmpl
               /\ vret' = VRet("new", "Pending", addr)
               /\ vlog' = <<"allocate_pages">>
               /\ UNCHANGED halted
    /\ UNCHANGED <<owners, leaked, rebuilt, pret, plog, rmp, zeroed, vmsas>>
    /\ UNCHANGED <<cellVars, guestVars, hvVars>>

\* Mutant of ReplacementPages: page is dropped before the new page is
\* allocated, so that the allocator may hand the same page back.
ReplacementPagesDropFirst(page) == allocate_pages(0) \cup {page}

\* VmsaPage::new, the loop body: the addresses RawPageBox::new(0) may give
\* for new_page; page is still owned, so it is not in the free pool.
ReplacementPages(page) == allocate_pages(0)

\* VmsaPage::new, one turn of the loop: page is 2 MiB-aligned, so
\* RawPageBox::new(0)? and page = new_page, which drops the old page.  When
\* the allocation fails the ? returns and page is dropped.
VmsaNewRealloc(page) ==
    /\ ~halted
    /\ vpc = "loop"
    /\ page \in vheld
    /\ is_aligned(vaddr(page), PAGE_SIZE_2M)
    /\ IF ReplacementPages(page) = {}
       THEN /\ freePages' = PoolAfterFree({page})
            /\ allocated' = allocated \ {<<page, 0>>}
            /\ vheld' = {}
            /\ vpc' = "idle"
            /\ vret' = VRet("new", "OutOfMemory", NoAddr)
            /\ vlog' = <<"allocate_pages", "free_page">>
       ELSE \E new_page \in ReplacementPages(page) :
               /\ freePages' = (freePages \ Run(new_page, 0)) \cup Run(page, 0)
               /\ allocated' = (allocated \cup {<<new_page, 0>>}) \ {<<page, 0>>}
               /\ vheld' = {new_page}
               /\ vpc' = "loop"
               /\ vret' = VRet("new", "Pending", new_page)
               /\ vlog' = <<"allocate_pages", "free_page">>
    /\ UNCHANGED <<owners, leaked, rebuilt, pret, plog>>
    /\ UNCHANGED <<vvmpl, rmp, zeroed, vmsas, halted>>
    /\ UNCHANGED <<cellVars, guestVars, hvVars>>

\* Mutant of write_bytesZeroed: the page is not filled.
write_bytesZeroedNot(page) == zeroed

\* VmsaPage::new, page.as_mut_ptr().write_bytes(0, PAGE_SIZE): the pages that
\* hold zero bytes after it.
write_bytesZeroed(page) == zeroed \cup {page}

\* VmsaPage::new after the loop, in order: the fill, rmp_adjust with
\* RMPFlags::VMSA | vmpl, then from_raw if it succeeded and the drop of page
\* if its ? returned.
VmsaNewFinishEvents(res) ==
    <<"write_bytes", "rmp_adjust_vmsa">>
        \o (IF res = "Ok" THEN <<"from_raw">> ELSE <<"free_page">>)

\* VmsaPage::new after the loop: page is not 2 MiB-aligned; it is filled
\* with zero bytes, rmp_adjust(page.vaddr(), RMPFlags::VMSA | vmpl, Regular)?
\* is called, and then Self(PageBox::from_raw(page)) is returned.  When
\* rmp_adjust fails the ? returns its error and page is dropped.
VmsaNewFinish(page, res) ==
    /\ ~halted
    /\ vpc = "loop"
    /\ page \in vheld
    /\ ~is_aligned(vaddr(page), PAGE_SIZE_2M)
    /\ zeroed' = write_bytesZeroed(page)
    /\ rmp' = RmpAfter(page, VmsaFlags(vvmpl), res)
    /\ vlog' = VmsaNewFinishEvents(res)
    /\ vheld' = {}
    /\ vpc' = "idle"
    /\ IF res = "Ok"
       THEN /\ owners' = Put(owners, VmsaBox(page))
            /\ vmsas' = vmsas \cup {page}
            /\ vret' = VRet("new", "Ok", page)
            /\ UNCHANGED <<freePages, allocated>>
       ELSE /\ freePages' = PoolAfterFree({page})
            /\ allocated' = allocated \ {<<page, 0>>}
            /\ vret' = VRet("new", "Err", NoAddr)
            /\ UNCHANGED <<owners, vmsas>>
    /\ UNCHANGED <<leaked, rebuilt, pret, plog, vvmpl, halted>>
    /\ UNCHANGED <<cellVars, guestVars, hvVars>>

\* DerefMut for VmsaPage, and a store through the reference.
VmsaDerefMutWrite(a) ==
    /\ ~halted
    /\ a \in vmsas
    /\ a \in zeroed
    /\ zeroed' = zeroed \ {a}
    /\ vret' = VRet("deref_mut", "Ok", a)
    /\ vlog' = <<"write">>
    /\ UNCHANGED <<vpc, vheld, vvmpl, rmp, vmsas, halted>>
    /\ UNCHANGED <<pageVars, cellVars, guestVars, hvVars>>

\* VmsaPage::leak: self goes into ManuallyDrop, so neither Drop for VmsaPage
\* nor Drop for PageBox runs; the reference handed back is to the VMSA in
\* the page.
VmsaLeak(a) ==
    /\ ~halted
    /\ a \in vmsas
    /\ vmsas' = vmsas \ {a}
    /\ owners' = Take(owners, VmsaBox(a))
    /\ leaked' = leaked \cup {<<a, 0>>}
    /\ vret' = VRet("leak", "Ok", a)
    /\ vlog' = << >>
    /\ UNCHANGED <<freePages, allocated, rebuilt, pret, plog>>
    /\ UNCHANGED <<vpc, vheld, vvmpl, rmp, zeroed, halted>>
    /\ UNCHANGED <<cellVars, guestVars, hvVars>>

\* Mutant of VmsaDropFrees: the result of rmp_adjust is ignored and the
\* PageBox is dropped in any case.
VmsaDropFreesAlways(a, res) == {a}

\* Drop for VmsaPage, the addresses handed to free_page: .expect() panics on
\* a failed rmp_adjust, so the field is dropped only after a success.
VmsaDropFrees(a, res) == IF res = "Ok" THEN {a} ELSE {}

\* Drop for VmsaPage, in order: rmp_adjust with RMPFlags::RWX |
\* RMPFlags::VMPL0, then the panic of .expect() or the drop of the field, a
\* PageBox<VMSA>.
VmsaDropEvents(a, res) ==
    <<"rmp_adjust_rwx">>
        \o (IF res = "Ok" THEN BoxDropEvents(VmsaBox(a)) ELSE <<"panic">>)

\* Drop for VmsaPage: rmp_adjust(vaddr, RWX | VMPL0, Regular).expect(..),
\* then the drop of the field.  A panic halts the kernel.
VmsaDrop(a, res) ==
    /\ ~halted
    /\ a \in vmsas
    /\ rmp' = RmpAfter(a, RwxVmpl0, res)
    /\ vlog' = VmsaDropEvents(a, res)
    /\ halted' = (res # "Ok")
    /\ freePages' = PoolAfterFree(VmsaDropFrees(a, res))
    /\ allocated' = {x \in allocated : x[1] \notin VmsaDropFrees(a, res)}
    /\ owners' = IF res = "Ok" THEN Take(owners, VmsaBox(a)) ELSE owners
    /\ vmsas' = IF res = "Ok" THEN vmsas \ {a} ELSE vmsas
    /\ vret' = VRet("drop", IF res = "Ok" THEN "Ok" ELSE "panic", a)
    /\ UNCHANGED <<leaked, rebuilt, pret, plog, vpc, vheld, vvmpl, zeroed>>
    /\ UNCHANGED <<cellVars, guestVars, hvVars>>

\* The pages handed out to other users of the page allocator: those of no
\* owner of the model.
OtherPages ==
    {x \in allocated :
        /\ x[1] \notin vheld
        /\ x \notin leaked
        /\ \A b \in Owned : b.addr # x[1]}

\* Another user of the page allocator takes a page.
OtherAlloc(addr) ==
    /\ ~halted
    /\ addr \in allocate_pages(0)
    /\ freePages' = PoolAfterAllocate(addr, 0)
    /\ allocated' = allocated \cup {<<addr, 0>>}
    /\ UNCHANGED <<owners, leaked, rebuilt, pret, plog>>
    /\ UNCHANGED <<vmsaVars, cellVars, guestVars, hvVars>>

\* Another user of the page allocator gives its page back.
OtherFree(x) ==
    /\ ~halted
    /\ x \in OtherPages
    /\ freePages' = PoolAfterFree({x[1]})
    /\ allocated' = allocated \ {x}
    /\ UNCHANGED <<owners, leaked, rebuilt, pret, plog>>
    /\ UNCHANGED <<vmsaVars, cellVars, guestVars, hvVars>>

NextVmsa ==
    \/ \E vmpl \in VmplArgs : VmsaNewStart(vmpl)
    \/ \E page \in vheld : VmsaNewRealloc(page)
    \/ \E page \in vheld : \E res \in rmp_adjust : VmsaNewFinish(page, res)
    \/ \E a \in vmsas : VmsaDerefMutWrite(a)
    \/ \E a \in vmsas : VmsaLeak(a)
    \/ \E a \in vmsas : \E res \in rmp_adjust : VmsaDrop(a, res)
    \/ \E addr \in Pages : OtherAlloc(addr)
    \/ \E x \in allocated : OtherFree(x)

\* ---------------------------------------------------------- HVDoorbellPage

\* HVDoorbell, as PageBox::try_new_zeroed leaves it: every field zero.
HVDoorbellZeroed == [vector |-> 0, flags |-> 0, no_eoi_required |-> 0]

DRet(op, res, addr) == [op |-> op, res |-> res, addr |-> addr]

\* What make_page_shared, make_page_private and register_hv_doorbell may
\* return.
Results == {"Ok", "Err"}

HvInit ==
    /\ doorbell = HVDoorbellZeroed
    /\ ppe = [pc |-> "idle", flags |-> 0, vector |-> 0]
    /\ eoi = [c \in Ctxs |-> [pc |-> "idle", val |-> 0, ret |-> "none"]]
    /\ hist = [posted |-> << >>, dispatched |-> << >>, sets |-> 0, trues |-> 0]
    /\ shared = {}
    /\ registered = {}
    /\ doorbells = {}
    /\ dret = DRet("boot", "Ok", NoAddr)
    /\ dlog = << >>

\* Drop for HVDoorbellPage, in order: make_page_private, then the panic of
\* .expect() if it failed with pv, or the drop of the field, a
\* PageBox<HVDoorbell>.
HVDropEvents(a, pv) ==
    <<"make_page_private">>
        \o (IF pv = "Ok" THEN BoxDropEvents(VmsaBox(a)) ELSE <<"panic">>)

\* HVDoorbellPage::new, in order, when make_page_shared returns sh,
\* register_hv_doorbell rg and make_page_private pv: try_new_zeroed, the
\* sharing, whose ? drops the PageBox<MaybeUninit<HVDoorbell>>, assume_init,
\* the registration, whose ? drops the HVDoorbellPage.
HVNewEvents(a, sh, rg, pv) ==
    <<"allocate_pages", "write_bytes", "make_page_shared">>
        \o (IF sh # "Ok" THEN <<"free_page">>
            ELSE <<"leak", "from_raw", "register_hv_doorbell">>
                     \o (IF rg = "Ok" THEN << >> ELSE HVDropEvents(a, pv)))

\* Mutant of HVNewShared: the page stays shared when the registration fails.
HVNewSharedKept(sh, rg, pv) == sh = "Ok"

\* HVDoorbellPage::new: the page is shared when the call ends.  It is if
\* make_page_shared succeeded, unless the registration failed and the drop
\* of the HVDoorbellPage made it private again.
HVNewShared(sh, rg, pv) == sh = "Ok" /\ ~(rg # "Ok" /\ pv = "Ok")

\* HVDoorbellPage::new: the page is given back to the allocator before the
\* call ends, by the drop of the PageBox or of the HVDoorbellPage.
HVNewFreed(sh, rg, pv) == sh # "Ok" \/ (rg # "Ok" /\ pv = "Ok")

\* HVDoorbellPage::new: what it returns.
HVNewResult(sh, rg, pv) ==
    IF sh # "Ok" THEN "ShareErr"
    ELSE IF rg = "Ok" THEN "Ok"
    ELSE IF pv = "Ok" THEN "RegisterErr" ELSE "panic"

\* HVDoorbellPage::new(ghcb): PageBox::try_new_zeroed()?,
\* make_page_shared(vaddr)?, Self(page.assume_init()),
\* ghcb.register_hv_doorbell(paddr)?, Ok(boxed).
HVDoorbellPageNew(sh, rg, pv) ==
    /\ ~halted
    /\ IF allocate_pages(0) = {}
       THEN /\ dret' = DRet("new", "OutOfMemory", NoAddr)
            /\ dlog' = <<"allocate_pages">>
            /\ UNCHANGED <<freePages, allocated, owners, zeroed, halted>>
            /\ UNCHANGED <<shared, registered, doorbells>>
       ELSE \E addr \in allocate_pages(0) :
               /\ dlog' = HVNewEvents(addr, sh, rg, pv)
               /\ dret' = DRet("new", HVNewResult(sh, rg, pv), addr)
               /\ zeroed' = zeroed \cup {addr}
               /\ shared' = IF HVNewShared(sh, rg, pv) THEN shared \cup {addr} ELSE shared
               /\ registered' = IF sh = "Ok" /\ rg = "Ok"
                                THEN registered \cup {addr} ELSE registered
               /\ halted' = (HVNewResult(sh, rg, pv) = "panic")
               /\ doorbells' = IF HVNewResult(sh, rg, pv) = "Ok"
                               THEN doorbells \cup {addr} ELSE doorbells
               /\ IF HVNewFreed(sh, rg, pv)
                  THEN UNCHANGED <<freePages, allocated, owners>>
                  ELSE /\ freePages' = PoolAfterAllocate(addr, 0)
                       /\ allocated' = allocated \cup {<<addr, 0>>}
                       /\ owners' = Put(owners, VmsaBox(addr))
    /\ UNCHANGED <<leaked, rebuilt, pret, plog>>
    /\ UNCHANGED <<vpc, vheld, vvmpl, rmp, vmsas, vret, vlog>>
    /\ UNCHANGED <<doorbell, ppe, eoi, hist, cellVars, guestVars>>

\* Mutant of HVDropFrees: the result of make_page_private is ignored and the
\* PageBox is dropped in any case.
HVDropFreesAlways(a, pv) == {a}

\* Drop for HVDoorbellPage, the addresses handed to free_page: .expect()
\* panics on a failed make_page_private, so the field is dropped only after
\* a success.
HVDropFrees(a, pv) == IF pv = "Ok" THEN {a} ELSE {}

\* Drop for HVDoorbellPage: make_page_private(vaddr).expect(..), then the
\* drop of the field.  A panic halts the kernel.
HVDoorbellPageDrop(a, pv) ==
    /\ ~halted
    /\ a \in doorbells
    /\ shared' = IF pv = "Ok" THEN shared \ {a} ELSE shared
    /\ dlog' = HVDropEvents(a, pv)
    /\ halted' = (pv # "Ok")
    /\ freePages' = PoolAfterFree(HVDropFrees(a, pv))
    /\ allocated' = {x \in allocated : x[1] \notin HVDropFrees(a, pv)}
    /\ owners' = IF pv = "Ok" THEN Take(owners, VmsaBox(a)) ELSE owners
    /\ doorbells' = IF pv = "Ok" THEN doorbells \ {a} ELSE doorbells
    /\ dret' = DRet("drop", IF pv = "Ok" THEN "Ok" ELSE "panic", a)
    /\ UNCHANGED <<leaked, rebuilt, pret, plog, registered>>
    /\ UNCHANGED <<vpc, vheld, vvmpl, rmp, zeroed, vmsas, vret, vlog>>
    /\ UNCHANGED <<doorbell, ppe, eoi, hist, cellVars, guestVars>>

NextHvPage ==
    \/ \E sh \in Results : \E rg \in Results : \E pv \in Results :
           HVDoorbellPageNew(sh, rg, pv)
    \/ \E a \in doorbells : \E pv \in Results : HVDoorbellPageDrop(a, pv)
    \/ \E addr \in Pages : OtherAlloc(addr)
    \/ \E x \in allocated : OtherFree(x)

\* -------------------------------------------------------------- HVDoorbell

\* The greatest value of an AtomicU8.
U8_MAX == 255

\* Bit n of the byte x.
Bit(x, n) == (x \div Pow2(n)) % 2

\* x & y on bytes, from bit n down.
RECURSIVE AndFrom(_, _, _)
AndFrom(x, y, n) ==
    IF n < 0 THEN 0 ELSE Bit(x, n) * Bit(y, n) * Pow2(n) + AndFrom(x, y, n - 1)

BitAnd(x, y) == AndFrom(x, y, 7)

\* !x on a byte.
BitNot(x) == U8_MAX - x

\* HVDoorbellFlags: nmi_pending is bit 0, mc_pending bit 1, rsvd_6_2 the
\* bits 2..6, no_further_signal bit 7.
NMI_PENDING == Pow2(0)
MC_PENDING == Pow2(1)
RSVD_LOW == Pow2(2)
NO_FURTHER_SIGNAL == Pow2(7)

\* HVDoorbellFlags::nmi_pending(), mc_pending(), no_further_signal().
nmi_pending(f) == Bit(f, 0) = 1
no_further_signal(f) == Bit(f, 7) = 1

\* Mutant of mc_pending: the accessor reads bit 0.
mc_pendingBit0(f) == Bit(f, 0) = 1

mc_pending(f) == Bit(f, 1) = 1

\* Mutant of no_further_signal_mask: only no_further_signal is in the mask.
no_further_signal_maskAlone == NO_FURTHER_SIGNAL

\* process_pending_events, no_further_signal_mask:
\* HVDoorbellFlags::new().with_no_further_signal(true).with_nmi_pending(true).
no_further_signal_mask == NO_FURTHER_SIGNAL + NMI_PENDING

\* Mutant of FetchAndNew: the operand is stored.
FetchAndNewStored(cur, operand) == operand

\* AtomicU8::fetch_and(operand): the value the byte holds after it; the
\* value it returns is cur.
FetchAndNew(cur, operand) == BitAnd(cur, operand)

\* The flag bytes the hypervisor stores: every combination of nmi_pending,
\* mc_pending, the lowest reserved bit and no_further_signal.
FlagValues ==
    {a + b + c + d : a \in {0, NMI_PENDING}, b \in {0, MC_PENDING},
                     c \in {0, RSVD_LOW}, d \in {0, NO_FURTHER_SIGNAL}}

Vectors == 1..MaxVector

\* The vector as a sequence: empty if it is zero.
Pending(v) == IF v = 0 THEN << >> ELSE <<v>>

\* process_pending_events up to the loop: flags.fetch_and(!mask), then the
\* panic if mc_pending is set in the value read.  A panic halts the kernel.
PpeFetchAnd ==
    /\ ~halted
    /\ ppe.pc = "idle"
    /\ doorbell' = [doorbell EXCEPT
                       !.flags = FetchAndNew(@, BitNot(no_further_signal_mask))]
    /\ ppe' = [pc |-> IF mc_pending(doorbell.flags) THEN "panic" ELSE "loop",
               flags |-> doorbell.flags, vector |-> 0]
    /\ halted' = mc_pending(doorbell.flags)
    /\ hist' = [hist EXCEPT !.posted = Pending(doorbell.vector), !.dispatched = << >>]
    /\ UNCHANGED <<eoi, shared, registered, doorbells, dret, dlog>>
    /\ UNCHANGED <<vpc, vheld, vvmpl, rmp, zeroed, vmsas, vret, vlog>>
    /\ UNCHANGED <<cellVars, pageVars, guestVars>>

\* Mutant of SwapStored: the vector is loaded and left in place.
SwapStoredSame(v) == v

\* process_pending_events, vector.swap(0): the value the field holds after
\* it; the value it returns is v.
SwapStored(v) == 0

\* Mutant of LoopEnds: the loop is left after the first swap.
LoopEndsAlways(v) == TRUE

\* process_pending_events, the test of the loop: break if vector == 0.
LoopEnds(v) == v = 0

\* process_pending_events, the head of the loop: vector.swap(0), and the
\* break if it was zero.
PpeSwap ==
    /\ ~halted
    /\ ppe.pc = "loop"
    /\ doorbell' = [doorbell EXCEPT !.vector = SwapStored(@)]
    /\ ppe' = [ppe EXCEPT !.pc = IF LoopEnds(doorbell.vector) THEN "idle" ELSE "dispatch",
                          !.vector = doorbell.vector]
    /\ UNCHANGED <<eoi, hist, shared, registered, doorbells, dret, dlog>>
    /\ UNCHANGED <<vmsaVars, cellVars, pageVars, guestVars>>

\* process_pending_events, the rest of the loop body:
\* common_isr_handler(vector), which returns.
PpeDispatch ==
    /\ ~halted
    /\ ppe.pc = "dispatch"
    /\ hist' = [hist EXCEPT !.dispatched = Append(@, ppe.vector)]
    /\ ppe' = [ppe EXCEPT !.pc = "loop", !.vector = 0]
    /\ UNCHANGED <<doorbell, eoi, shared, registered, doorbells, dret, dlog>>
    /\ UNCHANGED <<vmsaVars, cellVars, pageVars, guestVars>>

\* The hypervisor posts the vector v into the empty vector field.
HvPost(v) ==
    /\ doorbell.vector = 0
    /\ Len(hist.posted) < MaxPosts
    /\ doorbell' = [doorbell EXCEPT !.vector = v]
    /\ hist' = [hist EXCEPT !.posted = Append(@, v)]
    /\ UNCHANGED <<ppe, eoi, shared, registered, doorbells, dret, dlog>>
    /\ UNCHANGED <<vmsaVars, cellVars, pageVars, guestVars>>

\* The hypervisor stores the flags byte f.
HvSetFlags(f) ==
    /\ f # doorbell.flags
    /\ doorbell' = [doorbell EXCEPT !.flags = f]
    /\ UNCHANGED <<ppe, eoi, hist, shared, registered, doorbells, dret, dlog>>
    /\ UNCHANGED <<vmsaVars, cellVars, pageVars, guestVars>>

NextHv ==
    \/ PpeFetchAnd
    \/ PpeSwap
    \/ PpeDispatch
    \/ \E v \in Vectors : HvPost(v)
    \/ \E f \in FlagValues : HvSetFlags(f)

\* The bytes the hypervisor stores in no_eoi_required: bit 0, the flag,
\* and bit 1.
EoiValues == {a + b : a \in {0, Pow2(0)}, b \in {0, Pow2(1)}}

\* no_eoi_required, the load before the loop.
EoiLoad(c) ==
    /\ ~halted
    /\ eoi[c].pc = "idle"
    /\ eoi' = [eoi EXCEPT ![c] = [pc |-> "loop", val |-> doorbell.no_eoi_required,
                                  ret |-> "none"]]
    /\ UNCHANGED <<doorbell, ppe, hist, shared, registered, doorbells, dret, dlog>>
    /\ UNCHANGED <<vmsaVars, cellVars, pageVars, guestVars>>

\* Mutant of CasNew: bit 0 is not cleared in the value to store.
CasNewSame(old) == old

\* no_eoi_required, the value compare_exchange_weak is to store:
\* no_eoi_required & !1.
CasNew(old) == BitAnd(old, BitNot(1))

\* Mutant of CasSucceeds: the store is made without the comparison.
CasSucceedsBlind(cur, old, spurious) == ~spurious

\* compare_exchange_weak(old, ..) on a field that holds cur: it stores if
\* cur is old, and may fail though it is.
CasSucceeds(cur, old, spurious) == cur = old /\ ~spurious

\* no_eoi_required, one turn of the loop: return false if bit 0 of the value
\* read is clear; else compare_exchange_weak(val, val & !1), break and
\* return true on Ok, go on with the value it read on Err.
EoiLoop(c, spurious) ==
    /\ ~halted
    /\ eoi[c].pc = "loop"
    /\ IF (BitAnd(eoi[c].val, 1) = 0)
       THEN /\ eoi' = [eoi EXCEPT ![c] = [pc |-> "idle", val |-> 0, ret |-> "false"]]
            /\ UNCHANGED <<doorbell, hist>>
       ELSE IF CasSucceeds(doorbell.no_eoi_required, eoi[c].val, spurious)
       THEN /\ doorbell' = [doorbell EXCEPT !.no_eoi_required = CasNew(eoi[c].val)]
            /\ eoi' = [eoi EXCEPT ![c] = [pc |-> "idle", val |-> 0, ret |-> "true"]]
            /\ hist' = [hist EXCEPT !.trues = @ + 1]
       ELSE /\ eoi' = [eoi EXCEPT ![c] = [pc |-> "loop", val |-> doorbell.no_eoi_required,
                                          ret |-> "retry"]]
            /\ UNCHANGED <<doorbell, hist>>
    /\ UNCHANGED <<ppe, shared, registered, doorbells, dret, dlog>>
    /\ UNCHANGED <<vmsaVars, cellVars, pageVars, guestVars>>

\* The hypervisor, or the hardware, stores the byte b in no_eoi_required.
HvSetEoi(b) ==
    /\ b # doorbell.no_eoi_required
    /\ Bit(b, 0) > Bit(doorbell.no_eoi_required, 0) => hist.sets < MaxPosts
    /\ doorbell' = [doorbell EXCEPT !.no_eoi_required = b]
    /\ hist' = [hist EXCEPT
                   !.sets = IF Bit(b, 0) > Bit(doorbell.no_eoi_required, 0)
                            THEN @ + 1 ELSE @]
    /\ UNCHANGED <<ppe, eoi, shared, registered, doorbells, dret, dlog>>
    /\ UNCHANGED <<vmsaVars, cellVars, pageVars, guestVars>>

NextEoi ==
    \/ \E c \in Ctxs : EoiLoad(c)
    \/ \E c \in Ctxs : \E spurious \in BOOLEAN : EoiLoop(c, spurious)
    \/ \E b \in EoiValues : HvSetEoi(b)

Init == CellInit /\ PageInit /\ GuestInit /\ VmsaInit /\ HvInit

SpecPage == Init /\ [][NextPage]_vars

SpecGuest == Init /\ [][NextGuest]_vars

SpecVmsa == Init /\ [][NextVmsa]_vars

\* The core that runs VmsaPage::new keeps running it: the allocator and
\* rmp_adjust return.
SpecVmsaFair ==
    /\ SpecVmsa
    /\ WF_vars(\E page \in vheld : VmsaNewRealloc(page))
    /\ WF_vars(\E page \in vheld : \E res \in rmp_adjust : VmsaNewFinish(page, res))

SpecHvPage == Init /\ [][NextHvPage]_vars

SpecHv == Init /\ [][NextHv]_vars

SpecEoi == Init /\ [][NextEoi]_vars

\* The core keeps running process_pending_events, and common_isr_handler
\* returns.
SpecHvFair == SpecHv /\ WF_vars(PpeSwap) /\ WF_vars(PpeDispatch)


\* Spec: the borrow operations of one context, each in one step.
Next ==
    \/ TryBorrow(1)
    \/ TryBorrowMut(1)
    \/ TryGet(1)
    \/ \E h \in Live : \E p \in SUBSET h.ptr : RefMap(1, h, p)
    \/ \E h \in Live : \E p \in SUBSET h.ptr : RefFilterMap(1, h, p)
    \/ \E h \in Live : \E p \in SUBSET h.ptr : RefMutMap(1, h, p)
    \/ \E h \in Live : \E p \in SUBSET h.ptr : RefMutFilterMap(1, h, p)
    \/ \E h \in Live : \E p \in SUBSET h.ptr :
           \E q \in SUBSET h.ptr : RefMutMapSplit(1, h, p, q)
    \/ \E h \in Live : RefDrop(1, h)
    \/ \E h \in Live : RefMutDrop(1, h)

Spec == Init /\ [][Next]_vars

\* SpecWrite: the operations of test_basic, test_map_mut and
\* test_map_split_mut, with the writes made through write borrows.
NextWrite ==
    \/ TryBorrow(1)
    \/ TryBorrowMut(1)
    \/ TryGet(1)
    \/ \E h \in Live : \E p \in SUBSET h.ptr : RefMutMap(1, h, p)
    \/ \E h \in Live : \E p \in SUBSET h.ptr :
           \E q \in SUBSET h.ptr : RefMutMapSplit(1, h, p, q)
    \/ \E h \in Live : RefDrop(1, h)
    \/ \E h \in Live : RefMutDrop(1, h)
    \/ \E h \in Live : \E f \in h.ptr : \E v \in Values : DerefMutWrite(1, h, f, v)

SpecWrite == Init /\ [][NextWrite]_vars

\* --------------------------------------------- reentrancy and parallelism

\* PerCpuRef::new up to the load of the counter: the context now holds the
\* loaded value and has not stored yet.
RefNewLoad(a) ==
    /\ pc[a] = "idle"
    /\ NumLive < MaxRefs
    /\ pc' = [pc EXCEPT ![a] = "ref_new"]
    /\ val' = [val EXCEPT ![a] = borrow]
    /\ UNCHANGED <<borrow, value, refs, ret, depth, nonCellVars>>

\* PerCpuRef::new from the test of the loaded value on.  The local that held
\* the loaded value goes out of scope (modelled as 0).
RefNewFinish(a) ==
    /\ pc[a] = "ref_new"
    /\ ~RefNewOk(val[a]) \/ NumLive < MaxRefs
    /\ RefNew(a, val[a], "try_borrow")
    /\ pc' = [pc EXCEPT ![a] = "idle"]
    /\ val' = [val EXCEPT ![a] = 0]
    /\ UNCHANGED <<value, depth, nonCellVars>>

\* PerCpuRefMut::new up to the load of the counter.
RefMutNewLoad(a) ==
    /\ pc[a] = "idle"
    /\ NumLive < MaxRefs
    /\ pc' = [pc EXCEPT ![a] = "refmut_new"]
    /\ val' = [val EXCEPT ![a] = borrow]
    /\ UNCHANGED <<borrow, value, refs, ret, depth, nonCellVars>>

\* PerCpuRefMut::new from the test of the loaded value on.
RefMutNewFinish(a) ==
    /\ pc[a] = "refmut_new"
    /\ ~RefMutNewOk(val[a]) \/ NumLive < MaxRefs
    /\ RefMutNew(a, val[a], "try_borrow_mut")
    /\ pc' = [pc EXCEPT ![a] = "idle"]
    /\ val' = [val EXCEPT ![a] = 0]
    /\ UNCHANGED <<value, depth, nonCellVars>>

\* The handles context a holds.
Held(a) == {h \in Live : h.owner = a}

\* An interrupt on the same core: the running context is suspended where it
\* is and a handler starts on top of it.
Interrupt ==
    /\ depth < NumCtx
    /\ depth' = depth + 1
    /\ UNCHANGED <<borrow, value, refs, ret, pc, val, nonCellVars>>

\* The handler returns, having dropped every borrow it took; the context
\* below resumes where it was.
IrqReturn ==
    /\ depth > 1
    /\ pc[depth] = "idle"
    /\ Held(depth) = {}
    /\ depth' = depth - 1
    /\ UNCHANGED <<borrow, value, refs, ret, pc, val, nonCellVars>>

\* The steps of context a on the cell, the load and the store of the counter
\* in PerCpuRef::new and PerCpuRefMut::new being separate steps.
CtxStep(a) ==
    \/ RefNewLoad(a)
    \/ RefNewFinish(a)
    \/ RefMutNewLoad(a)
    \/ RefMutNewFinish(a)
    \/ \E h \in Live : \E p \in SUBSET h.ptr :
           \E q \in SUBSET h.ptr : RefMutMapSplit(a, h, p, q)
    \/ \E h \in Live : RefDrop(a, h)
    \/ \E h \in Live : RefMutDrop(a, h)

\* SpecIrq: one core; only the innermost context runs.
NextIrq ==
    \/ CtxStep(depth)
    \/ Interrupt
    \/ IrqReturn

SpecIrq == Init /\ [][NextIrq]_vars

\* The values the model lets the counter take.  With the counter equal to
\* the signed count of live borrows this is no restriction; in SpecSmp, where
\* the counter can drift away from that count without limit, it cuts the
\* drift off.
CounterRange == (0 - MaxSmpRefs)..MaxSmpRefs

\* The steps of core a in SpecSmp: borrows and drops.
CoreStep(a) ==
    \/ RefNewLoad(a)
    \/ RefNewFinish(a)
    \/ RefMutNewLoad(a)
    \/ RefMutNewFinish(a)
    \/ \E h \in Live : RefDrop(a, h)
    \/ \E h \in Live : RefMutDrop(a, h)

\* SpecSmp: the contexts are cores that run in parallel on one shared cell,
\* with no nesting discipline between them.
NextSmp ==
    \E a \in Ctxs :
        /\ CoreStep(a)
        /\ borrow' \in CounterRange
        /\ BagCardinality(refs') <= MaxSmpRefs

SpecSmp == Init /\ [][NextSmp]_vars

\* ------------------------------------------------------------------ C1

\* C1: after every operation the borrow counter is the signed count of live
\* borrows: n > 0 with n read borrows and no write borrow, -m < 0 with m
\* write borrows and no read borrow, 0 with no borrow live.
C1_CounterIsSignedCount ==
    /\ ~(NumReaders > 0 /\ NumWriters > 0)
    /\ borrow = NumReaders - NumWriters
    /\ (borrow > 0) = (NumReaders > 0 /\ NumWriters = 0)
    /\ (borrow < 0) = (NumWriters > 0 /\ NumReaders = 0)
    /\ (borrow = 0) = (NumLive = 0)

\* A write borrow split to three live write borrows: counter -3.
C1_Witness ==
    /\ NumWriters = 3
    /\ borrow = -3
    /\ ret.op = "map_split"

\* ------------------------------------------------------------------ C2

\* C2: under same-core reentrancy, with handlers that may run between the
\* load and the store of the counter, borrow and split the cell themselves
\* and drop what they took before they return: no read borrow is live
\* together with a write borrow, all live write borrows descend from one
\* try_borrow_mut through map_split (and are distinct handles), and the
\* counter is the signed count of live borrows.
C2_ReentrancySafe ==
    /\ ~(NumReaders > 0 /\ NumWriters > 0)
    /\ \A w \in Writers : CopiesIn(w, refs) = 1
    /\ \A w1 \in Writers : \A w2 \in Writers : w1.root = w2.root
    /\ borrow = NumReaders - NumWriters

\* The main context was interrupted between the load and the store of
\* try_borrow_mut, and the handler holds the two halves of a map_split.
C2_Witness ==
    /\ depth = 2
    /\ pc[1] = "refmut_new"
    /\ val[1] = 0
    /\ NumWriters = 2
    /\ \A w \in Writers : w.owner = 2 /\ w.sib # {}

\* ------------------------------------------------------------------ C8

\* The step finishes PerCpuRef::new or PerCpuRefMut::new on core a.
FinishesNew(a) == pc[a] \in {"ref_new", "refmut_new"} /\ pc'[a] = "idle"

\* C8: the cell is not safe across cores.  The store that ends
\* PerCpuRef::new / PerCpuRefMut::new depends on the value loaded earlier
\* only: a core whose loaded value passed the test is granted its borrow and
\* stores loaded + 1 (loaded - 1), whatever the other cores did to the
\* counter in between.  (The state with a write borrow live together with
\* another borrow, which this makes reachable, is C8_Witness.)
C8_StoreIgnoresOtherCores ==
    [][\A a \in Ctxs : FinishesNew(a) =>
          /\ (pc[a] = "refmut_new" /\ val[a] = 0) =>
                 /\ borrow' = -1
                 /\ \E w \in BagToSet(refs') :
                        /\ w.kind = "w" /\ w.owner = a
                        /\ CopiesIn(w, refs') = CopiesIn(w, refs) + 1
          /\ (pc[a] = "ref_new" /\ val[a] >= 0) =>
                 /\ borrow' = val[a] + 1
                 /\ \E r \in BagToSet(refs') :
                        /\ r.kind = "r" /\ r.owner = a
                        /\ CopiesIn(r, refs') = CopiesIn(r, refs) + 1
      ]_vars

\* A write borrow held by one core is live together with a borrow held by
\* another core.
C8_Witness ==
    \E w \in Writers : \E h \in Live :
        /\ h.owner # w.owner
        /\ pc[w.owner] = "idle" /\ pc[h.owner] = "idle"

\* ------------------------------------------------------------------ C3

\* C3: try_borrow_mut succeeds if and only if the counter is 0, that is no
\* borrow is live; otherwise it returns ReentrantWrite in that same call and
\* leaves the counter, the live borrows and the stored value as they were.
C3_TryBorrowMutIffFree ==
    [][ret'.op = "try_borrow_mut" =>
        /\ (ret'.res = "Ok") = (borrow = 0)
        /\ (ret'.res = "Ok") = (NumLive = 0)
        /\ ret'.res = "Ok" =>
              /\ borrow' = -1
              /\ refs' = Put(refs, Handle("w", Fields, {}, 1, 0))
              /\ value' = value
        /\ ret'.res # "Ok" =>
              /\ ret'.res = "ReentrantWrite"
              /\ borrow' = borrow
              /\ refs' = refs
              /\ value' = value
      ]_vars

\* try_borrow_mut has just failed against two split write borrows.
C3_Witness ==
    /\ ret = Ret("try_borrow_mut", "ReentrantWrite")
    /\ NumWriters = 2
    /\ borrow = -2

\* ------------------------------------------------------------------ C4

\* C4: try_borrow and try_get succeed if and only if the counter is >= 0,
\* that is no write borrow is live, whatever the number of read borrows;
\* otherwise they return ReentrantRead in that same call and leave the
\* counter, the live borrows and the stored value as they were.
C4_TryBorrowIffNoWriter ==
    [][ret'.op \in {"try_borrow", "try_get"} =>
        /\ (ret'.res = "Ok") = (borrow >= 0)
        /\ (ret'.res = "Ok") = (NumWriters = 0)
        /\ (ret'.res = "Ok" /\ ret'.op = "try_borrow") =>
              /\ borrow' = borrow + 1
              /\ refs' = Put(refs, Handle("r", Fields, {}, 1, 0))
              /\ value' = value
        /\ (ret'.res = "Ok" /\ ret'.op = "try_get") =>
              /\ borrow' = borrow
              /\ refs' = refs
              /\ value' = value
        /\ ret'.res # "Ok" =>
              /\ ret'.res = "ReentrantRead"
              /\ borrow' = borrow
              /\ refs' = refs
              /\ value' = value
      ]_vars

\* try_borrow has just failed against a mapped descendant of a split write
\* borrow.
C4_Witness ==
    /\ ret = Ret("try_borrow", "ReentrantRead")
    /\ \E h \in Writers : h.sib # {} /\ h.ptr \cup h.sib # Fields
    /\ borrow < 0

\* ------------------------------------------------------------------ C5

\* A step that is a new borrow attempt of the cell.
BorrowAttempt == ret'.op \in {"try_borrow", "try_borrow_mut", "try_get"}

\* A write borrow that came out of a map_split (or was narrowed from one).
SplitWriters == {h \in Writers : h.sib # {}}

\* The step drops write borrow h, and with it the last live borrow out of the
\* map_split that produced h: nothing is left in the other half's region.
DropsLastOfSplit(h) ==
    /\ RefMutDrop(1, h)
    /\ h.sib # {}
    /\ \A g \in BagToSet(refs') : ~(g.ptr \subseteq h.sib)

\* C5 as stated: while a borrow out of a map_split is live every new borrow
\* attempt fails, and once both borrows of that map_split are dropped the
\* cell is borrowable again.
C5_Original ==
    [][/\ (BorrowAttempt /\ SplitWriters # {}) => ret'.res # "Ok"
       /\ \A h \in Writers : DropsLastOfSplit(h) =>
              RefNewOk(borrow') /\ RefMutNewOk(borrow')
      ]_vars

\* C5, amended: while a borrow out of a map_split is live every new borrow
\* attempt fails, whichever half is dropped first; once both borrows of that
\* map_split are dropped and no other write borrow of the cell (a sibling
\* from an earlier map_split of the same lineage) is live, the cell is
\* borrowable again.
C5_SplitBlocksUntilAllDropped ==
    [][/\ (BorrowAttempt /\ SplitWriters # {}) => ret'.res # "Ok"
       /\ \A h \in Writers :
              (DropsLastOfSplit(h) /\ BagToSet(refs') = {}) =>
                  RefNewOk(borrow') /\ RefMutNewOk(borrow')
      ]_vars

\* A borrow attempt has just failed with one half of a map_split dropped and
\* the other still live.
C5_Witness ==
    /\ ret.op \in {"try_borrow", "try_borrow_mut"}
    /\ ret.res # "Ok"
    /\ NumWriters = 1
    /\ SplitWriters # {}

\* ------------------------------------------------------------------ C6

\* What a read through handle g sees after the step.
DerefNext(g) == [e \in g.ptr |-> value'[e]]

\* C6: the write borrows out of a map_split are independent.  Live write
\* borrows reach pairwise disjoint parts of the value; a write goes through
\* one write borrow h to one field f that h reaches, changes no other field,
\* and so leaves what every other live write borrow reaches as it was; and
\* no other operation (drop, borrow, map, split) changes the stored value,
\* so a later read borrow sees, field by field, the last value written
\* before or after the split.
C6_SplitsIndependent ==
    [][/\ \A h \in Writers : CopiesIn(h, refs) = 1
       /\ \A h \in Writers : \A g \in Writers \ {h} : h.ptr \cap g.ptr = {}
       /\ ret'.op = "write" =>
              \E h \in Writers : \E f \in h.ptr :
                  /\ \A e \in Fields \ {f} : value'[e] = value[e]
                  /\ \A g \in Writers \ {h} : DerefNext(g) = Deref(g)
       /\ ret'.op # "write" => value' = value
      ]_vars

\* A write has just gone through one half of a map_split while the other
\* half is live: the written half holds the new value, the other half still
\* reads what it read before.
C6_Witness ==
    /\ ret.op = "write"
    /\ \E h \in Writers : \E g \in Writers :
           /\ h.sib = g.ptr /\ g.sib = h.ptr
           /\ \E f \in h.ptr : value[f] = 1
           /\ \A e \in g.ptr : value[e] = 0

\* ------------------------------------------------------------------ C7

\* C7: map on a read or a write borrow leaves the counter as it is; the
\* narrowed borrow replaces the original (the same number of read and of
\* write borrows is live, the original is gone), and dropping a borrow,
\* narrowed or not, releases exactly one count.
C7_MapKeepsCount ==
    [][/\ ret'.op \in {"map", "map_mut"} =>
              /\ borrow' = borrow
              /\ NumReaders' = NumReaders
              /\ NumWriters' = NumWriters
              /\ \E h \in Live : \E p \in Regions :
                     /\ p \subseteq h.ptr
                     /\ h.kind = (IF ret'.op = "map" THEN "r" ELSE "w")
                     /\ refs' = Put(Take(refs, h), [h EXCEPT !.ptr = p])
       /\ ret'.op = "drop" =>
              /\ borrow' = borrow - 1
              /\ NumReaders' = NumReaders - 1
       /\ ret'.op = "drop_mut" =>
              /\ borrow' = borrow + 1
              /\ NumWriters' = NumWriters - 1
      ]_vars

\* map has just narrowed the only write borrow: the cell is still in the
\* Write state with one count.
C7_Witness ==
    /\ ret.op = "map_mut"
    /\ borrow = -1
    /\ NumWriters = 1
    /\ \E h \in Writers : h.ptr # Fields /\ h.sib = {}

\* ------------------------------------------------------------------ C9

RECURSIVE PagesOf(_, _)
\* The pages held by the owners of bag B among the owner values S.
PagesOf(B, S) ==
    IF S = {} THEN 0
    ELSE LET b == CHOOSE x \in S : TRUE
         IN  CopiesIn(b, B) * Pow2(b.order) + PagesOf(B, S \ {b})

RECURSIVE PagesOfRuns(_)
\* The pages of a set of runs <<address, order>>.
PagesOfRuns(R) ==
    IF R = {} THEN 0
    ELSE LET r == CHOOSE x \in R : TRUE
         IN  Pow2(r[2]) + PagesOfRuns(R \ {r})

\* C9: RawPageBox::new(order) that succeeds takes exactly 2^order pages out
\* of the free capacity and creates one owner of them; dropping that owner
\* puts exactly those pages back, so that new followed by drop leaves the
\* free capacity as it was; at all times the free capacity is the
\* allocator's capacity minus the pages of the live and leaked owners.  A
\* failed allocation returns the allocation error, creates no owner and
\* leaves the free pool as it was.
C9_AllocFreeRoundTrip ==
    [][/\ FreeCapacity + PagesOf(owners, Owned) + PagesOfRuns(leaked) = NumPages
       /\ (pret'.op = "raw_new" /\ pret'.res = "Ok") =>
              /\ pret'.order \in Orders
              /\ FreeCapacity' = FreeCapacity - Pow2(pret'.order)
              /\ freePages' = freePages \ Run(pret'.addr, pret'.order)
              /\ owners' = Put(owners, Owner("raw", pret'.addr, pret'.order))
       /\ (pret'.op = "raw_new" /\ pret'.res # "Ok") =>
              /\ pret'.res = "OutOfMemory"
              /\ pret'.addr = NoAddr
              /\ owners' = owners
              /\ freePages' = freePages
       /\ pret'.op = "raw_drop" =>
              /\ FreeCapacity' = FreeCapacity + Pow2(pret'.order)
              /\ freePages' = freePages \cup Run(pret'.addr, pret'.order)
              /\ owners' = Take(owners, Owner("raw", pret'.addr, pret'.order))
       /\ (/\ pret.op = "raw_new" /\ pret.res = "Ok"
           /\ pret'.op = "raw_drop" /\ pret'.addr = pret.addr) =>
              /\ freePages' = freePages \cup Run(pret.addr, pret.order)
              /\ FreeCapacity' = FreeCapacity + Pow2(pret.order)
      ]_vars

\* An owner of the largest supported order has just been dropped and the
\* whole capacity is free again.
C9_Witness ==
    /\ pret.op = "raw_drop"
    /\ pret.order = MAX_ORDER - 1
    /\ FreeCapacity = NumPages
    /\ owners = EmptyBag

\* ----------------------------------------------------------------- C10

\* C10: dropping a typed page owner runs the destructor of T in place
\* exactly once if the owner is a PageBox<T> and not at all if it is a
\* PageBox<MaybeUninit<T>>; in both cases the pages go back to the allocator
\* exactly once, as the last thing the drop does, and they are the pages the
\* owner held.
C10_DropRunsDtorThenFrees ==
    [][pret'.op = "drop" =>
          /\ pret'.res = "init" => plog' = <<"drop_in_place", "free_page">>
          /\ pret'.res = "uninit" => plog' = <<"free_page">>
          /\ Count(plog', "free_page") = 1
          /\ plog'[Len(plog')] = "free_page"
          /\ Run(pret'.addr, pret'.order) \cap freePages = {}
          /\ freePages' = freePages \cup Run(pret'.addr, pret'.order)
          /\ owners' = Take(owners, Owner(pret'.res, pret'.addr, pret'.order))
      ]_vars

\* An initialized owner made by assume_init has been dropped: destructor,
\* then pages back.
C10_Witness ==
    /\ pret.op = "drop"
    /\ pret.res = "init"
    /\ plog = <<"drop_in_place", "free_page">>
    /\ Run(pret.addr, pret.order) \subseteq freePages

\* ----------------------------------------------------------------- C11

\* The number of owners in bag B that own the run at address a.
OwnersAt(B, a) ==
    BagCardinality([b \in {x \in BagToSet(B) : x.addr = a} |-> B[b]])

\* The steps of an operation that touch the bytes of the pages, the
\* allocator or the destructor of T.
TouchingSteps ==
    {"write", "write_bytes", "drop_in_place", "allocate_pages", "free_page"}

\* C11: assume_init changes the type tag only: the PageBox<T> it returns has
\* the address and the order of the PageBox<MaybeUninit<T>> it was called on,
\* that owner is gone, the pages have exactly one owner, the allocator's pool
\* and its record of runs handed out are as before, and the operation
\* writes no byte, runs no destructor and makes no allocator call.
C11_AssumeInitOnlyRetags ==
    [][pret'.op = "assume_init" =>
          /\ pret'.res = "Ok"
          /\ Owner("uninit", pret'.addr, pret'.order) \in Owned
          /\ owners' = Put(Take(owners, Owner("uninit", pret'.addr, pret'.order)),
                           Owner("init", pret'.addr, pret'.order))
          /\ OwnersAt(owners, pret'.addr) = 1
          /\ OwnersAt(owners', pret'.addr) = 1
          /\ CopiesIn(Owner("uninit", pret'.addr, pret'.order), owners') = 0
          /\ freePages' = freePages
          /\ allocated' = allocated
          /\ leaked' = leaked
          /\ \A k \in DOMAIN plog' : plog'[k] \notin TouchingSteps
      ]_vars

\* assume_init has just turned the uninitialized owner of a two-page run
\* into an initialized one, with another owner alive beside it.
C11_Witness ==
    /\ pret.op = "assume_init"
    /\ pret.order = 1
    /\ CopiesIn(Owner("init", pret.addr, pret.order), owners) = 1
    /\ OwnersAt(owners, pret.addr) = 1
    /\ BagCardinality(owners) = 2

\* ----------------------------------------------------------------- C12

\* The step returns pages of run r to the allocator or runs the destructor
\* of T over run r.
ReleasesRun(r) ==
    \/ Run(r[1], r[2]) \cap freePages' # {}
    \/ /\ pret'.op = "drop" /\ pret'.addr = r[1]
       /\ \E k \in DOMAIN plog' : plog'[k] = "drop_in_place"

\* What leak returns: a reference to the first page of the owner it gave up.
LeakReturnsFirstByte ==
    pret'.op = "leak" =>
        \E t \in {"uninit", "init"} :
            /\ Owner(t, pret'.addr, pret'.order) \in Owned
            /\ owners' = Take(owners, Owner(t, pret'.addr, pret'.order))
            /\ <<pret'.addr, pret'.order>> \in leaked'

Constructs(size) == TryNewUninit(size) \/ TryNew(size) \/ TryNewZeroed(size)

\* order is the least order whose run of 2^order pages holds size bytes.
MinimalOrder(order, size) ==
    /\ PAGE_SIZE * Pow2(order) >= size
    /\ order > 0 => PAGE_SIZE * Pow2(order - 1) < size

\* C13: try_new_uninit, try_new and try_new_zeroed work with the minimal
\* order covering size_of(T).  If that order is not below MAX_ORDER (it
\* exceeds the largest order MAX_ORDER - 1 the allocator has) the call
\* returns OutOfMemory and the allocator is not called; otherwise the
\* allocator is asked once, for exactly that order: on success one owner of
\* a run of that order exists, on failure the allocator's error is returned,
\* no owner is created and the pool is as before.
C13_OrderCheckedBeforeAllocating ==
    [][\A size \in 1..MaxTSize : Constructs(size) =>
          /\ MinimalOrder(pret'.order, size)
          /\ pret'.order > MAX_ORDER - 1 =>
                 /\ pret'.res = "OutOfMemory"
                 /\ plog' = << >>
                 /\ owners' = owners /\ freePages' = freePages
                 /\ allocated' = allocated
          /\ pret'.order <= MAX_ORDER - 1 =>
                 /\ plog'[1] = "allocate_pages"
                 /\ Count(plog', "allocate_pages") = 1
                 /\ (pret'.res = "Ok") = (allocate_pages(pret'.order) # {})
                 /\ pret'.res = "Ok" =>
                        /\ OwnersAt(owners', pret'.addr) = 1
                        /\ OwnersAt(owners, pret'.addr) = 0
                        /\ BagCardinality(owners') = BagCardinality(owners) + 1
                        /\ freePages' = freePages \ Run(pret'.addr, pret'.order)
                        /\ Run(pret'.addr, pret'.order) \subseteq freePages
                 /\ pret'.res # "Ok" =>
                        /\ pret'.res = "OutOfMemory"
                        /\ owners' = owners /\ freePages' = freePages
                        /\ allocated' = allocated
      ]_vars

\* try_new_zeroed for a T of more than one page has just failed in the
\* allocator: the order was fine, no run of that order was free.
C13_Witness ==
    /\ pret.op = "try_new_zeroed"
    /\ pret.res = "OutOfMemory"
    /\ pret.order = MAX_ORDER - 1
    /\ plog = <<"allocate_pages">>
    /\ FreeCapacity > 0

\* ----------------------------------------------------------------- C14

\* The range [paddr, paddr + len * size_of(T)) the last map request named.
RequestedRange == gret'.src..(gret'.src + gret'.count * gret'.size - 1)

\* The range of the last map request fits the address space.
RequestedRangeFormed == gret'.src + gret'.count * gret'.size <= AddrLimit

\* C14: both forms of Mapping<Guest, _>::map validate the whole range
\* [paddr, paddr + len * size_of(T)), with len = 1 for the single-element
\* form, before the mapping step: if the range cannot be formed, or any
\* address of it is not guest-owned (a range that straddles guest-owned and
\* other memory included), the call returns an error, map_inner has not run
\* and the set of established mappings is as before; map_inner only ever runs
\* after valid_phys_region, and every established mapping lies inside
\* guest-owned memory.
C14_MapValidatesWholeRangeFirst ==
    [][gret'.op \in {"map", "map_slice"} =>
          /\ gret'.op = "map" => gret'.count = 1
          /\ glog'[1] = "phys_region"
          /\ \A k \in DOMAIN glog' :
                 glog'[k] = "map_inner" => (k = 3 /\ glog'[2] = "valid_phys_region")
          /\ (~RequestedRangeFormed \/ ~(RequestedRange \subseteq GuestOwned)) =>
                 /\ gret'.res \in {"Err", "Mem"}
                 /\ \A k \in DOMAIN glog' : glog'[k] # "map_inner"
                 /\ mapped' = mapped
          /\ (RequestedRangeFormed /\ ~(RequestedRange \subseteq GuestOwned)) =>
                 gret'.res = "Mem"
          /\ \A mp \in mapped' : MappedCells(mp) \subseteq GuestOwned
      ]_vars

\* A slice request that starts in guest-owned memory and ends outside it
\* has just been rejected, with nothing mapped.
C14_Witness ==
    /\ gret.op = "map_slice"
    /\ gret.res = "Mem"
    /\ gret.src \in GuestOwned
    /\ gret.src + gret.count * gret.size - 1 \in PhysAddrs \ GuestOwned
    /\ glog = <<"phys_region", "valid_phys_region">>
    /\ mapped = {}

\* ----------------------------------------------------------------- C15

\* The copy of element i of the last read or write faults.
FaultsAt(i) == gret'.src + i \in gret'.faults \/ gret'.dst + i \in gret'.faults

\* C15: Guest read and Guest write copy element by element in increasing
\* index order.  If the copy of some element faults, the call returns the
\* memory error (it does not panic), the number of elements copied is the
\* index of the first element that faults, each element below that index is
\* in the destination with the value of its source element, and no other
\* cell of memory, in particular no destination element of that index or
\* above, has changed.  If no copy faults all count elements are copied and
\* the call returns Ok; with count = 0 it returns Ok and memory is as before.
C15_CopyStopsAtFirstFault ==
    [][gret'.op \in {"read", "write"} =>
          /\ gret'.res \in {"Ok", "Fault"}
          /\ gret'.copied \in 0..gret'.count
          /\ (gret'.res = "Fault") = (\E i \in 0..(gret'.count - 1) : FaultsAt(i))
          /\ gret'.res = "Fault" =>
                 /\ FaultsAt(gret'.copied)
                 /\ \A j \in 0..(gret'.copied - 1) : ~FaultsAt(j)
          /\ gret'.res = "Ok" => gret'.copied = gret'.count
          /\ \A j \in 0..(gret'.copied - 1) :
                 memory'[gret'.dst + j] = memory[gret'.src + j]
          /\ \A c \in Cells :
                 c \notin {gret'.dst + j : j \in 0..(gret'.copied - 1)} =>
                     memory'[c] = memory[c]
          /\ gret'.count = 0 => (gret'.res = "Ok" /\ memory' = memory)
      ]_vars

\* A write of two elements has just faulted at the second: the first is in
\* guest memory, the second guest element still has its old content, which
\* is not the one the kernel tried to write.
C15_Witness ==
    /\ gret.op = "write"
    /\ gret.res = "Fault"
    /\ gret.count = 2
    /\ gret.copied = 1
    /\ memory[gret.dst] = memory[gret.src]
    /\ memory[gret.dst + 1] # memory[gret.src + 1]

\* ----------------------------------------------------------------- C16

C17_WriteBytesAborts ==
    [][/\ gret'.op = "write_bytes" =>
              /\ gret'.res = "panic"
              /\ memory' = memory
              /\ mapped' = mapped
       /\ gret.res = "panic" => UNCHANGED vars
      ]_vars

\* write_bytes was called on guest memory that holds written content, and
\* the kernel has stopped with that content in place.
C17_Witness ==
    /\ gret.op = "write_bytes"
    /\ gret.res = "panic"
    /\ gret.count = NumGuestCells
    /\ \E g \in GuestOwned : memory[g] = "b"
    /\ \E g \in GuestOwned : memory[g] = "a"

\* ----------------------------------------------------------------- C18

\* The event e1 is in the log s before the event e2.
Before(s, e1, e2) == \E i, j \in DOMAIN s : i < j /\ s[i] = e1 /\ s[j] = e2

\* The step ends a call of VmsaPage::new that got past the loop.
VmsaNewReturns == vpc = "loop" /\ vpc' = "idle" /\ vret'.res \in {"Ok", "Err"}

\* C18: a VmsaPage comes to exist only at the end of a call of VmsaPage::new
\* that has filled the whole page with zero bytes and then tagged it as a
\* VMSA for the requested privilege level, in that order and before the
\* value is made.  If the transition fails the call returns the error, makes
\* no VmsaPage, gives the page back to the allocator and issues no inverse
\* transition.
C18_ZeroFillThenTagThenValue ==
    [][/\ \A a \in vmsas' \ vmsas :
              /\ VmsaNewReturns
              /\ vret' = VRet("new", "Ok", a)
              /\ vheld = {a}
              /\ a \in zeroed'
              /\ rmp'[a] = VmsaFlags(vvmpl)
              /\ vvmpl \in Vmpls
              /\ Before(vlog', "write_bytes", "rmp_adjust_vmsa")
              /\ Before(vlog', "rmp_adjust_vmsa", "from_raw")
       /\ VmsaNewReturns /\ vret'.res = "Ok" => vmsas' \ vmsas = vheld
       /\ VmsaNewReturns /\ vret'.res = "Err" =>
              /\ vmsas' = vmsas
              /\ owners' = owners
              /\ vheld \subseteq freePages'
              /\ \A x \in allocated' : x[1] \notin vheld
              /\ vheld' = {}
              /\ rmp' = rmp
              /\ Count(vlog', "rmp_adjust_rwx") = 0
              /\ Before(vlog', "write_bytes", "rmp_adjust_vmsa")
              /\ ~halted'
      ]_vars

\* A call of VmsaPage::new has just failed in its transition, with its page
\* filled and back in the free pool, while the VmsaPage of an earlier call
\* is alive on a filled and tagged page.
C18_Witness ==
    /\ vret = VRet("new", "Err", NoAddr)
    /\ vlog = <<"write_bytes", "rmp_adjust_vmsa", "free_page">>
    /\ \E p \in zeroed : p \in freePages /\ ~rmp[p].vmsa
    /\ \E a \in vmsas : a \in zeroed /\ rmp[a] = VmsaFlags(VMPL_MAX - 1)

\* ----------------------------------------------------------------- C19

\* The page p is 2 MiB-aligned.
Aligned2M(p) == is_aligned(vaddr(p), PAGE_SIZE_2M)

\* The step is one of the running VmsaPage::new.
VmsaNewSteps == vpc = "loop" /\ vret'.op = "new" /\ <<vret, vlog>>' # <<vret, vlog>>

\* C19: no VmsaPage is on a 2 MiB-aligned page.  A call of VmsaPage::new
\* that holds an aligned page goes on only by allocating another page while
\* it still holds the rejected one, so that the two differ, and then giving
\* the rejected page back, once; the call holds exactly one page until it
\* returns, and that page becomes the page of the VmsaPage of a successful
\* call.  If the allocation of the replacement fails the call returns the
\* error at once and the rejected page is given back, so that the call
\* leaves no page allocated.
C19_AlignedPagesReplaced ==
    [][/\ \A a \in vmsas' : ~Aligned2M(a)
       /\ Cardinality(vheld') = (IF vpc' = "loop" THEN 1 ELSE 0)
       /\ \A p \in vheld' : p \notin freePages' /\ <<p, 0>> \in allocated'
       /\ \A p \in vheld : VmsaNewSteps /\ Aligned2M(p) =>
              /\ vmsas' = vmsas
              /\ p \notin freePages
              /\ p \in freePages'
              /\ <<p, 0>> \notin allocated'
              /\ Count(vlog', "free_page") = 1
              /\ Before(vlog', "allocate_pages", "free_page")
              /\ p \notin vheld'
              /\ vret'.res \in {"Pending", "OutOfMemory"}
              /\ vret'.res = "Pending" =>
                     /\ vpc' = "loop"
                     /\ vheld' \subseteq freePages
                     /\ vret'.addr \in vheld'
                     /\ FreeCapacity' = FreeCapacity
              /\ vret'.res = "OutOfMemory" =>
                     /\ vpc' = "idle"
                     /\ freePages = {}
                     /\ vheld' = {}
                     /\ vret'.addr = NoAddr
                     /\ FreeCapacity' = FreeCapacity + 1
       /\ \A p \in vheld : VmsaNewSteps /\ ~Aligned2M(p) =>
              /\ vret'.res \in {"Ok", "Err"}
              /\ vret'.res = "Ok" =>
                     /\ vmsas' = vmsas \cup {p}
                     /\ FreeCapacity' = FreeCapacity
                     /\ <<p, 0>> \in allocated'
      ]_vars

\* A call of VmsaPage::new held a 2 MiB-aligned page and found no page to
\* replace it: it has returned OutOfMemory, the rejected page is free
\* again, and the VmsaPage of an earlier call is alive.
C19_Witness ==
    /\ vret = VRet("new", "OutOfMemory", NoAddr)
    /\ vlog = <<"allocate_pages", "free_page">>
    /\ vpc = "idle"
    /\ vheld = {}
    /\ \E p \in freePages : Aligned2M(p)
    /\ vmsas # {}

\* ----------------------------------------------------------------- C20

\* C20: the drop of a VmsaPage issues the transition to read/write/execute
\* for privilege level 0 exactly once, and before the page goes back to the
\* allocator, which happens once, as the last thing of the drop.  If the
\* transition fails the kernel halts: the page stays allocated and nothing
\* runs any more.  So no page in the allocator's free pool carries the VMSA
\* tag.
C20_UntagBeforeFree ==
    [][/\ Tagged' \cap freePages' = {}
       /\ vret'.op = "drop" /\ vret' # vret =>
              /\ vret'.addr \in vmsas
              /\ vret'.addr \in Tagged
              /\ Count(vlog', "rmp_adjust_rwx") = 1
              /\ vlog'[1] = "rmp_adjust_rwx"
              /\ vret'.res = "Ok" =>
                     /\ rmp'[vret'.addr] = RwxVmpl0
                     /\ Count(vlog', "free_page") = 1
                     /\ vlog'[Len(vlog')] = "free_page"
                     /\ freePages' = freePages \cup {vret'.addr}
                     /\ vret'.addr \notin freePages
                     /\ vmsas' = vmsas \ {vret'.addr}
                     /\ ~halted'
              /\ vret'.res # "Ok" =>
                     /\ vret'.res = "panic"
                     /\ halted'
                     /\ Count(vlog', "free_page") = 0
                     /\ freePages' = freePages
                     /\ allocated' = allocated
                     /\ vret'.addr \in Tagged'
       /\ halted => UNCHANGED vars
      ]_vars

\* A VmsaPage has just been dropped: its page is back in the free pool
\* without the VMSA tag, while another VmsaPage is alive on a tagged page.
C20_Witness ==
    /\ vret.op = "drop"
    /\ vret.res = "Ok"
    /\ vlog = <<"rmp_adjust_rwx", "drop_in_place", "free_page">>
    /\ vret.addr \in freePages
    /\ vret.addr \in zeroed
    /\ rmp[vret.addr] = RwxVmpl0
    /\ \E a \in vmsas : rmp[a] = VmsaFlags(VMPL_MAX - 1)

\* ----------------------------------------------------------------- C21

\* The step is a call of HVDoorbellPage::new that got a page.
HVNewGotPage == dret'.op = "new" /\ dret'.addr # NoAddr /\ <<dret, dlog>>' # <<dret, dlog>>

\* C21: HVDoorbellPage::new fills the page with zero bytes, then shares it
\* with the hypervisor, then registers it, in that order, and an
\* HVDoorbellPage comes to exist only after all three.  Every page in the
\* allocator's free pool is private: when the sharing fails the page is
\* freed with neither the sharing nor the registration done and no attempt
\* to make it private; when the registration fails the page is made private
\* again and only then freed.
C21_ShareThenRegisterOrUndo ==
    [][/\ shared' \cap freePages' = {}
       /\ \A a \in doorbells' \ doorbells :
              /\ HVNewGotPage
              /\ dret' = DRet("new", "Ok", a)
              /\ a \in zeroed' /\ a \in shared' /\ a \in registered'
              /\ a \notin freePages'
       /\ HVNewGotPage =>
              /\ dret'.addr \in freePages
              /\ dret'.addr \in zeroed'
              /\ Before(dlog', "write_bytes", "make_page_shared")
              /\ Count(dlog', "make_page_shared") = 1
              /\ dret'.res = "Ok" =>
                     /\ doorbells' = doorbells \cup {dret'.addr}
                     /\ Before(dlog', "make_page_shared", "register_hv_doorbell")
                     /\ Count(dlog', "make_page_private") = 0
                     /\ Count(dlog', "free_page") = 0
              /\ dret'.res = "ShareErr" =>
                     /\ doorbells' = doorbells
                     /\ dret'.addr \in freePages'
                     /\ dret'.addr \notin shared'
                     /\ registered' = registered
                     /\ Count(dlog', "register_hv_doorbell") = 0
                     /\ Count(dlog', "make_page_private") = 0
                     /\ dlog'[Len(dlog')] = "free_page"
                     /\ ~halted'
              /\ dret'.res = "RegisterErr" =>
                     /\ doorbells' = doorbells
                     /\ Before(dlog', "make_page_shared", "register_hv_doorbell")
                     /\ Before(dlog', "register_hv_doorbell", "make_page_private")
                     /\ Before(dlog', "make_page_private", "free_page")
                     /\ Count(dlog', "make_page_private") = 1
                     /\ Count(dlog', "free_page") = 1
                     /\ dret'.addr \in freePages'
                     /\ dret'.addr \notin shared'
                     /\ registered' = registered
                     /\ ~halted'
              /\ dret'.res = "panic" =>
                     /\ halted'
                     /\ dret'.addr \notin freePages'
                     /\ Count(dlog', "free_page") = 0
      ]_vars

\* A call of HVDoorbellPage::new has just failed in its registration: its
\* page is private and back in the free pool, while the HVDoorbellPage of
\* an earlier call is alive on a shared and registered page.
C21_Witness ==
    /\ dret.op = "new"
    /\ dret.res = "RegisterErr"
    /\ dret.addr \in freePages
    /\ dret.addr \in zeroed
    /\ dret.addr \notin shared
    /\ \E a \in doorbells : a \in shared /\ a \in registered /\ a \notin freePages

\* ----------------------------------------------------------------- C22

\* C22: the drop of an HVDoorbellPage makes the page private once, and
\* before the page goes back to the allocator, which happens once, as the
\* last thing of the drop.  If make_page_private fails the kernel halts:
\* the page stays shared and allocated, and nothing runs any more.
C22_PrivateBeforeFree ==
    [][/\ dret'.op = "drop" /\ dret' # dret =>
              /\ dret'.addr \in doorbells
              /\ dret'.addr \in shared
              /\ Count(dlog', "make_page_private") = 1
              /\ dlog'[1] = "make_page_private"
              /\ dret'.res = "Ok" =>
                     /\ dret'.addr \notin shared'
                     /\ Count(dlog', "free_page") = 1
                     /\ dlog'[Len(dlog')] = "free_page"
                     /\ freePages' = freePages \cup {dret'.addr}
                     /\ dret'.addr \notin freePages
                     /\ doorbells' = doorbells \ {dret'.addr}
                     /\ ~halted'
              /\ dret'.res # "Ok" =>
                     /\ dret'.res = "panic"
                     /\ halted'
                     /\ Count(dlog', "free_page") = 0
                     /\ freePages' = freePages
                     /\ allocated' = allocated
                     /\ dret'.addr \in shared'
       /\ halted => freePages' = freePages /\ allocated' = allocated /\ shared' = shared
      ]_vars

\* An HVDoorbellPage has just been dropped: its page is private and back in
\* the free pool, while another HVDoorbellPage is alive on a shared page.
C22_Witness ==
    /\ dret.op = "drop"
    /\ dret.res = "Ok"
    /\ dlog = <<"make_page_private", "drop_in_place", "free_page">>
    /\ dret.addr \in freePages
    /\ dret.addr \notin shared
    /\ \E a \in doorbells : a \in shared

\* ----------------------------------------------------------------- C23

\* The step is the fetch-and that begins process_pending_events.
FetchAndStep == ppe.pc = "idle" /\ ppe'.pc # "idle"

\* C23 as stated: the fetch-and step of process_pending_events leaves
\* no_further_signal and mc_pending clear.
C23_Original ==
    [][FetchAndStep =>
          /\ ~no_further_signal(doorbell'.flags)
          /\ ~mc_pending(doorbell'.flags)
      ]_vars

\* C23: the fetch-and step of process_pending_events clears
\* no_further_signal and nmi_pending in one step, so that after it both
\* read as clear; mc_pending is not in the mask and keeps the value it had:
\* it is only read, in the value the step returns.
C23_ClearsNoFurtherSignalAndNmi ==
    [][FetchAndStep =>
          /\ ~no_further_signal(doorbell'.flags)
          /\ ~nmi_pending(doorbell'.flags)
          /\ mc_pending(doorbell'.flags) <=> mc_pending(doorbell.flags)
          /\ mc_pending(ppe'.flags) <=> mc_pending(doorbell.flags)
      ]_vars

\* The fetch-and step has just run on a flags byte with no_further_signal,
\* nmi_pending and mc_pending set: the first two are clear, mc_pending is
\* still set.
C23_Witness ==
    /\ ppe.pc = "panic"
    /\ ppe.flags = NO_FURTHER_SIGNAL + RSVD_LOW + MC_PENDING + NMI_PENDING
    /\ doorbell.flags = RSVD_LOW + MC_PENDING

\* ----------------------------------------------------------------- C24

\* The machine-check bit is set in the flags byte f.
McSet(f) == BitAnd(f, MC_PENDING) # 0

\* C24: when mc_pending is set in the flags value the fetch-and of
\* process_pending_events returns, the kernel halts in that step, before
\* the loop: the call makes no swap of the vector field and dispatches
\* nothing, whatever the field holds, and after the halt the field is
\* changed only by the hypervisor.
C24_MachineCheckHaltsBeforeLoop ==
    [][/\ FetchAndStep /\ McSet(doorbell.flags) =>
              /\ halted'
              /\ ppe'.pc = "panic"
              /\ doorbell'.vector = doorbell.vector
              /\ hist'.dispatched = << >>
       /\ FetchAndStep /\ ~McSet(doorbell.flags) => ~halted' /\ ppe'.pc = "loop"
       /\ halted =>
              /\ ppe' = ppe
              /\ hist'.dispatched = << >>
              /\ doorbell'.vector # doorbell.vector => doorbell.vector = 0
      ]_vars

\* The kernel has halted on a machine check with a vector waiting in the
\* field: the vector is still there and nothing was dispatched.
C24_Witness ==
    /\ halted
    /\ ppe.pc = "panic"
    /\ McSet(ppe.flags)
    /\ doorbell.vector = MaxVector
    /\ hist.posted = <<MaxVector>>
    /\ hist.dispatched = << >>

\* ----------------------------------------------------------------- C25

\* The step is one of process_pending_events.
PpeSteps == ppe' # ppe

\* C25: hist.posted holds the nonzero values the vector field has presented
\* to the running call of process_pending_events, hist.dispatched the
\* vectors it has handed to common_isr_handler.  Every swap that reads a
\* nonzero value is followed by the dispatch of that value; the swap that
\* reads zero ends the call, and then the vectors dispatched are those
\* presented, each once and in their order, and the field is zero.  With
\* nothing presented nothing is dispatched.
C25_DrainsInOrder ==
    [][/\ PpeSteps /\ ppe.pc = "loop" /\ doorbell.vector # 0 =>
              /\ ppe'.pc = "dispatch"
              /\ ppe'.vector = doorbell.vector
              /\ doorbell'.vector = 0
              /\ hist' = hist
       /\ PpeSteps /\ ppe.pc = "dispatch" =>
              /\ ppe'.pc = "loop"
              /\ hist'.dispatched = Append(hist.dispatched, ppe.vector)
              /\ doorbell' = doorbell
       /\ PpeSteps /\ ppe.pc = "loop" /\ doorbell.vector = 0 =>
              /\ ppe'.pc = "idle"
              /\ doorbell'.vector = 0
              /\ hist' = hist
       /\ ppe.pc = "loop" /\ ppe'.pc = "idle" =>
              /\ doorbell.vector = 0
              /\ hist.dispatched = hist.posted
              /\ hist.posted = << >> => hist'.dispatched = << >>
      ]_vars

\* A call of process_pending_events has returned after the field presented
\* MaxPosts vectors, not all the same: they were dispatched in their order
\* and the field is zero.
C25_Witness ==
    /\ ppe.pc = "idle"
    /\ doorbell.vector = 0
    /\ Len(hist.posted) = MaxPosts
    /\ hist.posted[1] = MaxVector
    /\ hist.posted[2] = 1
    /\ hist.dispatched = hist.posted

\* ----------------------------------------------------------------- C28

\* The vector process_pending_events has swapped out and not yet dispatched.
InFlight == IF ppe.pc = "dispatch" THEN <<ppe.vector>> ELSE << >>

\* C28: with the hypervisor posting while process_pending_events runs, the
\* vectors posted are, in their order, those dispatched, then the one
\* swapped out and about to be dispatched, then the one in the field: none
\* is lost and none dispatched twice.  A nonzero value leaves the field only
\* by a swap of the loop, which leaves zero and takes the value to its
\* dispatch; so a vector posted after the swap that read zero stays in the
\* field until the loop of a later call takes it.  The loop ends once the
\* hypervisor posts no more.
C28_ConcurrentDrain ==
    /\ [][/\ hist'.dispatched \o InFlight' \o Pending(doorbell'.vector) = hist'.posted
          /\ doorbell.vector # 0 /\ doorbell'.vector # doorbell.vector =>
                 /\ ppe.pc = "loop"
                 /\ ppe'.pc = "dispatch"
                 /\ ppe'.vector = doorbell.vector
                 /\ doorbell'.vector = 0
          /\ ppe.pc = "idle" /\ doorbell.vector # 0 => doorbell'.vector = doorbell.vector
         ]_vars
    /\ (ppe.pc \in {"loop", "dispatch"}) ~> (ppe.pc = "idle")

\* A call of process_pending_events has returned with all the vectors
\* posted before its last swap dispatched, and the hypervisor has posted
\* one more, which waits in the field.
C28_Witness ==
    /\ ppe.pc = "idle"
    /\ ~halted
    /\ Len(hist.posted) = MaxPosts
    /\ Len(hist.dispatched) = MaxPosts - 1
    /\ doorbell.vector = hist.posted[MaxPosts]
    /\ hist.dispatched = SubSeq(hist.posted, 1, MaxPosts - 1)

\* ----------------------------------------------------------------- C29

\* C29: the fetch-and step of process_pending_events clears bit 7
\* (no_further_signal) and bit 0 (nmi_pending) of flags and leaves every
\* other bit as it was, and the value the call goes on with is the flags
\* byte of the moment of the step.  No other step of process_pending_events
\* writes flags, and none writes no_eoi_required.
C29_FetchAndFrame ==
    [][/\ FetchAndStep =>
              /\ \A n \in 0..7 :
                     Bit(doorbell'.flags, n) =
                         (IF n \in {0, 7} THEN 0 ELSE Bit(doorbell.flags, n))
              /\ ppe'.flags = doorbell.flags
              /\ doorbell'.vector = doorbell.vector
       /\ PpeSteps /\ ~FetchAndStep => doorbell'.flags = doorbell.flags
       /\ PpeSteps => doorbell'.no_eoi_required = doorbell.no_eoi_required
      ]_vars

\* The fetch-and step has just run on a flags byte with no_further_signal,
\* nmi_pending and a reserved bit set: only the reserved bit is left, and
\* the call is in its loop.
C29_Witness ==
    /\ ppe.pc = "loop"
    /\ ppe.flags = NO_FURTHER_SIGNAL + RSVD_LOW + NMI_PENDING
    /\ doorbell.flags = RSVD_LOW
    /\ doorbell.vector # 0

\* ----------------------------------------------------------------- C26

\* The step is one of the call of no_eoi_required in the context c.
EoiSteps(c) == eoi'[c] # eoi[c]

\* The step ends the call of no_eoi_required in the context c with r.
EoiReturns(c, r) == eoi[c].pc = "loop" /\ eoi'[c].pc = "idle" /\ eoi'[c].ret = r

\* C26: a call of no_eoi_required returns true in the step in which it
\* changes bit 0 of the field from 1 to 0, and in no other; it writes the
\* field in no other step, so a call that returns false has written
\* nothing, and it returns false on a value read with bit 0 clear.  Every
\* true consumes one setting of the bit: the calls that returned true and
\* the bit, if set, are never more than the settings.
C26_TrueIffCleared ==
    [][/\ \A c \in Ctxs :
              /\ EoiReturns(c, "true") =>
                     /\ Bit(doorbell.no_eoi_required, 0) = 1
                     /\ Bit(doorbell'.no_eoi_required, 0) = 0
              /\ EoiReturns(c, "false") =>
                     /\ Bit(eoi[c].val, 0) = 0
                     /\ doorbell' = doorbell
              /\ EoiSteps(c) /\ ~EoiReturns(c, "true") => doorbell' = doorbell
              /\ EoiSteps(c) /\ eoi'[c].pc = "idle" => eoi'[c].ret \in {"true", "false"}
       /\ hist'.trues + Bit(doorbell'.no_eoi_required, 0) <= hist'.sets
      ]_vars

\* The bit was set twice and two calls of no_eoi_required, one in each of
\* two contexts, have returned true; the bit is clear.
C26_Witness ==
    /\ \A c \in 1..2 : eoi[c].pc = "idle" /\ eoi[c].ret = "true"
    /\ hist.trues = 2
    /\ hist.sets = 2
    /\ Bit(doorbell.no_eoi_required, 0) = 0

\* ----------------------------------------------------------------- C27

\* C27: whatever was stored in no_eoi_required since a call read it, a step
\* of the call either leaves the field as it is or clears bit 0 of the
\* value the field holds at that step, so that the bits 1..7 keep their
\* latest value; a field that differs from the value read is not written,
\* the call takes the value of the field instead and goes round the loop,
\* where it returns false if bit 0 of that value is clear.
C27_CasKeepsConcurrentChange ==
    [][\A c \in Ctxs : EoiSteps(c) =>
          /\ doorbell'.no_eoi_required \in
                 {doorbell.no_eoi_required,
                  doorbell.no_eoi_required - Bit(doorbell.no_eoi_required, 0)}
          /\ \A n \in 1..7 :
                 Bit(doorbell'.no_eoi_required, n) = Bit(doorbell.no_eoi_required, n)
          /\ eoi[c].pc = "loop" /\ doorbell.no_eoi_required # eoi[c].val =>
                 /\ doorbell' = doorbell
                 /\ Bit(eoi[c].val, 0) = 1 =>
                        /\ eoi'[c].pc = "loop"
                        /\ eoi'[c].val = doorbell.no_eoi_required
          /\ eoi[c].pc = "loop" /\ Bit(eoi[c].val, 0) = 0 => EoiReturns(c, "false")
      ]_vars

\* A call of no_eoi_required read the field with bit 0 set, the hypervisor
\* then stored a byte with bit 0 clear and bit 1 set, and the
\* compare-and-swap has failed: the call holds the new byte, which is still
\* in the field.
C27_Witness ==
    \E c \in Ctxs :
        /\ eoi[c].pc = "loop"
        /\ eoi[c].ret = "retry"
        /\ eoi[c].val = Pow2(1)
        /\ doorbell.no_eoi_required = Pow2(1)
        /\ hist.trues = 0

\* ----------------------------------------------------------------- C30

\* C30 as stated: every call of VmsaPage::new that has entered its loop
\* returns, unless the kernel halts meanwhile.
C30_Original == (vpc = "loop") ~> (vpc = "idle" \/ halted)

\* A call of VmsaPage::new has replaced a 2 MiB-aligned page and holds a
\* 2 MiB-aligned page again, with the page it rejected back in the free
\* pool for the next turn.
C30_Witness ==
    /\ vpc = "loop"
    /\ vret.res = "Pending"
    /\ vlog = <<"allocate_pages", "free_page">>
    /\ \A p \in vheld : Aligned2M(p)
    /\ \E q \in freePages : Aligned2M(q)

\* ----------------------------------------------------------------- C31

\* Every live owner holds a run the allocator handed out, and no run has
\* more than one live owner.
SingleOwner ==
    /\ \A b \in Owned : <<b.addr, b.order>> \in allocated
    /\ \A r \in allocated : OwnersAt(owners, r[1]) <= 1

\* No page of a run that has a live owner, or that was given up with leak,
\* is in the allocator's free pool; a leaked run has no owner.
HeldNotFree ==
    /\ \A b \in Owned : Run(b.addr, b.order) \cap freePages = {}
    /\ \A r \in leaked :
          /\ Run(r[1], r[2]) \cap freePages = {}
          /\ OwnersAt(owners, r[1]) = 0

\* With no live owner left, the free capacity is the initial capacity less
\* the pages of the leaked runs.
AllDroppedCapacity ==
    owners = EmptyBag =>
        /\ FreeCapacity = NumPages - PagesOfRuns(leaked)
        /\ freePages = Pages \ UNION {Run(r[1], r[2]) : r \in leaked}

\* The step is the drop of an owner (Drop for RawPageBox, alone or at the
\* end of Drop for PageBox).
DropStep == pret'.op \in {"raw_drop", "drop"} /\ owners' # owners

\* A drop returns a run that was handed out and of which no page is free
\* yet, and the run is then no longer handed out: it cannot be returned
\* again before it is allocated again.
ReturnedOnce ==
    DropStep =>
        /\ <<pret'.addr, pret'.order>> \in allocated
        /\ <<pret'.addr, pret'.order>> \notin allocated'
        /\ Run(pret'.addr, pret'.order) \cap freePages = {}
        /\ freePages' = freePages \cup Run(pret'.addr, pret'.order)
        /\ OwnersAt(owners', pret'.addr) = 0
        /\ Count(plog', "free_page") = 1

\* C31: for every sequence of RawPageBox::new, try_new, try_new_uninit,
\* try_new_zeroed, assume_init, leak and drop, each allocated run has at
\* most one live owner, no run is returned to the allocator twice, no run
\* with a live owner or given up with leak is in the free pool, and once
\* every live owner has been dropped the free capacity is the initial
\* capacity minus the leaked runs.
C31_SingleOwnerAccounting ==
    /\ [](SingleOwner /\ HeldNotFree /\ AllDroppedCapacity)
    /\ [][ReturnedOnce]_vars

\* An owner went through assume_init and was dropped, another was leaked,
\* and the last live owner has just been dropped: the free pool is all but
\* the leaked run, which is larger than one page.
C31_Witness ==
    /\ pret.op = "drop"
    /\ pret.res = "init"
    /\ plog = <<"drop_in_place", "free_page">>
    /\ owners = EmptyBag
    /\ \E r \in leaked :
          /\ leaked = {r}
          /\ r[2] > 0
          /\ allocated = {r}
          /\ FreeCapacity = NumPages - Pow2(r[2])
          /\ r[1] # pret.addr

====
